---------------------------- MODULE Spec2Model ----------------------------
(***************************************************************************)
(* Model of scripts/generate-from-sample.js: the detection pipeline        *)
(* (tokenize, runDetectors, analyzeStructural) and its pure helpers        *)
(* (luhnCheck, the detector validators, computeSignature,                  *)
(* signatureToRegex).                                                      *)
(*                                                                         *)
(* A JavaScript string is a sequence of one-character strings.  A regular  *)
(* expression is a syntax tree, matched with the backtracking order of     *)
(* RegExp.prototype.exec (leftmost start, greedy quantifiers, alternatives *)
(* left to right).                                                         *)
(***************************************************************************)
EXTENDS Naturals, Integers, Sequences, FiniteSets, TLC

VARIABLES
    pc,          \* position of the run: which phase has completed
    content,     \* the file content read by main
    tokenData,   \* result of tokenize(content)
    detections,  \* result of runDetectors: the Map, as a sequence in insertion order
    structural,  \* result of analyzeStructural
    input,       \* argument of a helper called on its own
    output,      \* its result
    lastIndex,   \* lastIndex of the regex object of each detector of DETECTORS
    allPatterns, \* the records pushed by Phase 3 of main, in order
    previous     \* <<allPatterns>> of the run before this one, <<>> on a first run

vars == <<pc, content, tokenData, detections, structural, input, output,
          lastIndex, allPatterns, previous>>

----------------------------------------------------------------------------
(* Characters and strings                                                  *)

UpperSeq == <<"A","B","C","D","E","F","G","H","I","J","K","L","M",
              "N","O","P","Q","R","S","T","U","V","W","X","Y","Z">>
LowerSeq == <<"a","b","c","d","e","f","g","h","i","j","k","l","m",
              "n","o","p","q","r","s","t","u","v","w","x","y","z">>
DigitSeq == <<"0","1","2","3","4","5","6","7","8","9">>

Range(s) == {s[i] : i \in DOMAIN s}

Upper == Range(UpperSeq)
Lower == Range(LowerSeq)
Letter == Upper \cup Lower
Digit == Range(DigitSeq)
Alnum == Letter \cup Digit
\* \w and \s of a RegExp without the u flag
WordChar == Alnum \cup {"_"}
SpaceChar == {" ", "\t", "\n", "\r", "\f"}
HexDigit == Digit \cup {"a","b","c","d","e","f","A","B","C","D","E","F"}

\* null, where a string is expected (no string has a 4-character element)
Null == <<"null">>

Min(a, b) == IF a < b THEN a ELSE b
Max(a, b) == IF a > b THEN a ELSE b

\* s.slice(from, to) with 0-based from (inclusive) and to (exclusive)
Slice(s, from, to) == SubSeq(s, from + 1, to)

\* String.prototype.toLowerCase on ASCII
LowerChar(c) ==
    IF c \in Upper THEN LowerSeq[CHOOSE i \in 1..26 : UpperSeq[i] = c] ELSE c
ToLowerCase(s) == [i \in DOMAIN s |-> LowerChar(s[i])]

\* String.prototype.includes
Includes(s, sub) ==
    \E i \in 0..(Len(s) - Len(sub)) : Slice(s, i, i + Len(sub)) = sub

\* String.prototype.trim
RECURSIVE TrimStart(_)
TrimStart(s) ==
    IF s # <<>> /\ Head(s) \in SpaceChar THEN TrimStart(Tail(s)) ELSE s
RECURSIVE TrimEnd(_)
TrimEnd(s) ==
    IF s # <<>> /\ s[Len(s)] \in SpaceChar THEN TrimEnd(Slice(s, 0, Len(s) - 1)) ELSE s
Trim(s) == TrimEnd(TrimStart(s))

\* value of one decimal digit character
DigitVal(c) == (CHOOSE i \in 1..10 : DigitSeq[i] = c) - 1

\* parseInt(s, 10) of a string that starts with a digit: the leading digits
RECURSIVE ParseIntFrom(_, _, _)
ParseIntFrom(s, i, acc) ==
    IF i <= Len(s) /\ s[i] \in Digit
    THEN ParseIntFrom(s, i + 1, acc * 10 + DigitVal(s[i]))
    ELSE acc
ParseInt(s) == ParseIntFrom(s, 1, 0)

\* `${count}`: the decimal digits of a natural number
RECURSIVE NumToStr(_)
NumToStr(n) ==
    IF n < 10 THEN <<DigitSeq[n + 1]>>
    ELSE NumToStr(n \div 10) \o <<DigitSeq[(n % 10) + 1]>>

\* String.prototype.split on a one-character separator
RECURSIVE SplitFrom(_, _, _, _)
SplitFrom(s, sep, i, cur) ==
    IF i > Len(s) THEN <<cur>>
    ELSE IF s[i] = sep THEN <<cur>> \o SplitFrom(s, sep, i + 1, <<>>)
    ELSE SplitFrom(s, sep, i + 1, Append(cur, s[i]))
Split(s, sep) == SplitFrom(s, sep, 1, <<>>)

\* Array.prototype.join with a one-character separator
RECURSIVE Join(_, _)
Join(parts, sep) ==
    IF parts = <<>> THEN <<>>
    ELSE IF Len(parts) = 1 THEN parts[1]
    ELSE parts[1] \o <<sep>> \o Join(Tail(parts), sep)

\* [...new Set(xs)]: the distinct elements in order of first occurrence
RECURSIVE Distinct(_)
Distinct(xs) ==
    IF xs = <<>> THEN <<>>
    ELSE LET front == Distinct(Slice(xs, 0, Len(xs) - 1))
             last == xs[Len(xs)]
         IN IF last \in Range(front) THEN front ELSE Append(front, last)

\* all sequences over S of length lo..hi
SeqsOf(S, lo, hi) == UNION {[1..n -> S] : n \in lo..hi}

----------------------------------------------------------------------------
(* Regular expressions: syntax trees and RegExp.prototype.exec             *)

Chr(S) == [t |-> "chr", s |-> S, xs |-> <<>>, lo |-> 0, hi |-> 0]
NotChr(S) == [t |-> "not", s |-> S, xs |-> <<>>, lo |-> 0, hi |-> 0]
Lit(c) == Chr({c})
WB == [t |-> "wb", s |-> {}, xs |-> <<>>, lo |-> 0, hi |-> 0]
Cat(nodes) == [t |-> "seq", s |-> {}, xs |-> nodes, lo |-> 0, hi |-> 0]
Alt(nodes) == [t |-> "alt", s |-> {}, xs |-> nodes, lo |-> 0, hi |-> 0]
\* x{lo,hi}, greedy; hi = -1 is no upper limit
Rep(x, lo, hi) == [t |-> "rep", s |-> {}, xs |-> <<x>>, lo |-> lo, hi |-> hi]
Times(x, n) == Rep(x, n, n)
Plus(x) == Rep(x, 1, -1)
Opt(x) == Rep(x, 0, 1)
LitStr(s) == Cat([i \in DOMAIN s |-> Lit(s[i])])

\* \b at position p (p characters consumed)
IsWordBoundary(s, p) ==
    LET before == p > 0 /\ s[p] \in WordChar
        after == p < Len(s) /\ s[p + 1] \in WordChar
    IN before # after

\* The end positions of the matches of node n in s starting at position p,
\* in the order the backtracking matcher tries them.
RECURSIVE Ends(_, _, _)
RECURSIVE CatEnds(_, _, _, _)
RECURSIVE AltEnds(_, _, _, _)
RECURSIVE RepEnds(_, _, _, _, _)
RECURSIVE RepMore(_, _, _, _, _, _, _)

Ends(n, s, p) ==
    CASE n.t = "chr" -> IF p < Len(s) /\ s[p + 1] \in n.s THEN <<p + 1>> ELSE <<>>
      [] n.t = "not" -> IF p < Len(s) /\ s[p + 1] \notin n.s THEN <<p + 1>> ELSE <<>>
      [] n.t = "wb" -> IF IsWordBoundary(s, p) THEN <<p>> ELSE <<>>
      [] n.t = "seq" -> CatEnds(n.xs, 1, s, <<p>>)
      [] n.t = "alt" -> AltEnds(n.xs, 1, s, p)
      [] n.t = "rep" -> RepEnds(n.xs[1], n.lo, n.hi, s, p)

\* nodes[i..] matched one after the other from each of the positions ps
CatEnds(nodes, i, s, ps) ==
    IF ps = <<>> THEN <<>>
    ELSE IF i > Len(nodes) THEN ps
    ELSE CatEnds(nodes, i + 1, s, Ends(nodes[i], s, Head(ps)))
             \o CatEnds(nodes, i, s, Tail(ps))

AltEnds(nodes, i, s, p) ==
    IF i > Len(nodes) THEN <<>>
    ELSE Ends(nodes[i], s, p) \o AltEnds(nodes, i + 1, s, p)

\* after one more iteration of x ending at each of es (an empty iteration
\* is not repeated)
RepMore(x, lo, hi, s, p, es, k) ==
    IF k > Len(es) THEN <<>>
    ELSE (IF es[k] > p
          THEN RepEnds(x, Max(lo - 1, 0), IF hi = -1 THEN -1 ELSE hi - 1, s, es[k])
          ELSE <<>>)
         \o RepMore(x, lo, hi, s, p, es, k + 1)

\* the number of consecutive characters from position p that x matches,
\* x a character class
RECURSIVE RunLength(_, _, _)
RunLength(x, s, p) ==
    IF Ends(x, s, p) = <<>> THEN 0 ELSE 1 + RunLength(x, s, p + 1)

\* a repeated character class: the longest run first, then one less, ...
ClassRepEnds(x, lo, hi, s, p) ==
    LET run == RunLength(x, s, p)
        most == IF hi = -1 THEN run ELSE Min(run, hi)
    IN IF most < lo THEN <<>>
       ELSE [k \in 1..(most - lo + 1) |-> p + most - (k - 1)]

RepEnds(x, lo, hi, s, p) ==
    IF x.t \in {"chr", "not"} THEN ClassRepEnds(x, lo, hi, s, p)
    ELSE IF hi = 0 THEN <<p>>
    ELSE RepMore(x, lo, hi, s, p, Ends(x, s, p), 1)
             \o (IF lo = 0 THEN <<p>> ELSE <<>>)

\* regex.exec(s) with regex.lastIndex = from: the first match at or after
\* from, as [index, end], or NoMatch for null
NoMatch == [index |-> -1, end |-> -1]
RECURSIVE Exec(_, _, _)
\* es: the ends of the matches that start at from
ExecAt(re, s, from, es) ==
    IF es # <<>> THEN [index |-> from, end |-> es[1]]
    ELSE Exec(re, s, from + 1)

Exec(re, s, from) ==
    IF from > Len(s) THEN NoMatch
    ELSE ExecAt(re, s, from, Ends(re, s, from))

\* regex.test(s) of a regex without the g flag
Test(re, s) == Exec(re, s, 0) # NoMatch

----------------------------------------------------------------------------
(* Phase 2: the validators and the detector catalogue                      *)

\* numStr.replace(/\D/g, '')
StripNonDigits(numStr) == SelectSeq(numStr, LAMBDA c : c \in Digit)

\* the loop of luhnCheck, i running from digits.length - 1 down to 0
\* (here i is the 1-based index of the same digit)
RECURSIVE LuhnLoop(_, _, _, _)
LuhnLoop(digits, i, sum, alternate) ==
    IF i < 1 THEN sum
    ELSE LET n0 == DigitVal(digits[i])
             n1 == IF alternate THEN n0 * 2 ELSE n0
             n == IF alternate /\ n1 > 9 THEN n1 - 9 ELSE n1
         IN LuhnLoop(digits, i - 1, sum + n, ~alternate)

LuhnSumDoublingRightmost(digits) == LuhnLoop(digits, Len(digits), 0, TRUE)

\* sum = 0, alternate = false, then the loop
LuhnSum(digits) == LuhnLoop(digits, Len(digits), 0, FALSE)

luhnCheck(numStr) ==
    LET digits == StripNonDigits(numStr)
    IN IF Len(digits) < 13 \/ Len(digits) > 19 THEN FALSE
       ELSE LuhnSum(digits) % 10 = 0

\* DETECTORS[Credit Card Number].validate
ValidateCreditCard(match) == luhnCheck(match)

\* DETECTORS[IPv4 Address].validate
ValidateIPv4FirstOctetOnly(match) ==
    LET octets == Split(match, ".")
    IN ParseInt(octets[1]) >= 0 /\ ParseInt(octets[1]) <= 255

ValidateIPv4(match) ==
    LET octets == Split(match, ".")
    IN \A k \in DOMAIN octets :
           LET n == ParseInt(octets[k]) IN n >= 0 /\ n <= 255

\* DETECTORS[ISO Date].validate
ValidateISODateDayUpTo30(match) ==
    LET parts == Split(match, "-")
        y == ParseInt(parts[1])
        m == ParseInt(parts[2])
        d == ParseInt(parts[3])
    IN y >= 1900 /\ y <= 2100 /\ m >= 1 /\ m <= 12 /\ d >= 1 /\ d <= 30

ValidateISODate(match) ==
    LET parts == Split(match, "-")
        y == ParseInt(parts[1])
        m == ParseInt(parts[2])
        d == ParseInt(parts[3])
    IN y >= 1900 /\ y <= 2100 /\ m >= 1 /\ m <= 12 /\ d >= 1 /\ d <= 31

D(k) == Times(Chr(Digit), k)
DRange(a, b) == Chr({DigitSeq[i + 1] : i \in a..b})
Hex(k) == Times(Chr(HexDigit), k)
UpperAlnum == Upper \cup Digit
Base64Url == Alnum \cup {"_", "-"}

EmailRegex ==
    Cat(<<Plus(Chr(Alnum \cup {".", "_", "%", "+", "-"})), Lit("@"),
          Plus(Chr(Alnum \cup {".", "-"})), Lit("."), Rep(Chr(Letter), 2, -1)>>)

CreditCardRegexAnyPrefix == Cat(<<WB, D(16), WB>>)

CreditCardRegex ==
    Cat(<<WB,
          Alt(<<Cat(<<Lit("4"), D(12), Opt(D(3))>>),
                Cat(<<Lit("5"), DRange(1, 5), D(14)>>),
                Cat(<<Lit("3"), Chr({"4", "7"}), D(13)>>),
                Cat(<<Lit("3"),
                      Alt(<<Cat(<<Lit("0"), DRange(0, 5)>>),
                            Cat(<<Chr({"6", "8"}), Chr(Digit)>>)>>),
                      D(11)>>),
                Cat(<<Lit("6"),
                      Alt(<<LitStr(<<"0","1","1">>), Cat(<<Lit("5"), D(2)>>)>>),
                      D(12)>>),
                Cat(<<Alt(<<LitStr(<<"2","1","3","1">>), LitStr(<<"1","8","0","0">>),
                            Cat(<<LitStr(<<"3","5">>), D(3)>>)>>),
                      D(11)>>)>>),
          WB>>)

IBANRegex ==
    Cat(<<WB, Times(Chr(Upper), 2), D(2), Rep(Chr(UpperAlnum), 4, 30), WB>>)

IPv4Regex ==
    Cat(<<WB, Rep(Chr(Digit), 1, 3), Lit("."), Rep(Chr(Digit), 1, 3), Lit("."),
          Rep(Chr(Digit), 1, 3), Lit("."), Rep(Chr(Digit), 1, 3), WB>>)

IPv6Regex ==
    Cat(<<WB, Times(Cat(<<Rep(Chr(HexDigit), 1, 4), Lit(":")>>), 7),
          Rep(Chr(HexDigit), 1, 4), WB>>)

MACRegex ==
    Cat(<<WB, Times(Cat(<<Hex(2), Chr({":", "-"})>>), 5), Hex(2), WB>>)

UUIDRegex ==
    Cat(<<WB, Hex(8), Lit("-"), Hex(4), Lit("-"), Hex(4), Lit("-"), Hex(4),
          Lit("-"), Hex(12), WB>>)

JWTRegex ==
    Cat(<<WB, LitStr(<<"e","y","J">>), Rep(Chr(Base64Url), 10, -1), Lit("."),
          Rep(Chr(Base64Url), 10, -1), Lit("."), Rep(Chr(Base64Url), 10, -1), WB>>)

AWSKeyRegex ==
    Cat(<<WB,
          Alt(<<Cat(<<LitStr(<<"A","3","T">>), Chr(UpperAlnum)>>),
                LitStr(<<"A","K","I","A">>), LitStr(<<"A","G","P","A">>),
                LitStr(<<"A","I","D","A">>), LitStr(<<"A","R","O","A">>),
                LitStr(<<"A","I","P","A">>), LitStr(<<"A","N","P","A">>),
                LitStr(<<"A","N","V","A">>), LitStr(<<"A","S","I","A">>)>>),
          Times(Chr(UpperAlnum), 16), WB>>)

SSNRegex == Cat(<<WB, D(3), Lit("-"), D(2), Lit("-"), D(4), WB>>)

PhoneRegex ==
    LET sep == Opt(Chr(SpaceChar \cup {"-"}))
    IN Cat(<<Lit("+"), Rep(Chr(Digit), 1, 3), sep, Opt(Lit("(")),
             Rep(Chr(Digit), 1, 4), Opt(Lit(")")), sep, Rep(Chr(Digit), 3, 5),
             sep, Rep(Chr(Digit), 3, 5)>>)

ISODateRegex == Cat(<<WB, D(4), Lit("-"), D(2), Lit("-"), D(2), WB>>)

URLRegex ==
    Cat(<<LitStr(<<"h","t","t","p">>), Opt(Lit("s")), LitStr(<<":","/","/">>),
          Plus(NotChr(SpaceChar \cup {"\"", "'", "<", ">"}))>>)

\* the matching part of a detector; validate names the validator, "none"
\* when the detector has no validate function
Detector(name, regex, validate) ==
    [name |-> name, regex |-> regex, validate |-> validate]

DetectorRules ==
    <<Detector("Email Address", EmailRegex, "none"),
      Detector("Credit Card Number", CreditCardRegex, "luhn"),
      Detector("IBAN", IBANRegex, "none"),
      Detector("IPv4 Address", IPv4Regex, "ipv4"),
      Detector("IPv6 Address", IPv6Regex, "none"),
      Detector("MAC Address", MACRegex, "none"),
      Detector("UUID", UUIDRegex, "none"),
      Detector("JSON Web Token", JWTRegex, "none"),
      Detector("AWS Access Key", AWSKeyRegex, "none"),
      Detector("US Social Security Number", SSNRegex, "none"),
      Detector("Phone Number (International)", PhoneRegex, "none"),
      Detector("ISO Date", ISODateRegex, "date"),
      Detector("URL", URLRegex, "none")>>

\* the other properties of the detectors, in the same order
DetectorData ==
    <<
     \* Email Address
     [slug |-> <<"g","l","o","b","a","l","-","e","m","a","i","l","-","a","d","d","r","e",
          "s","s">>,
      confidence |-> "high",
      categories |-> <<"pii">>,
      jurisdictions |-> <<"global">>,
      regulations |-> <<"general-data-protection">>,
      contextKeywords |->
          << <<"e","m","a","i","l">>,
             <<"e","-","m","a","i","l">>,
             <<"m","a","i","l">>,
             <<"c","o","n","t","a","c","t">>,
             <<"a","d","d","r","e","s","s">> >>,
      patternTemplate |->
          <<"[","A","-","Z","a","-","z","0","-","9",".","_","%","+","\\","-","]","+","@",
            "[","A","-","Z","a","-","z","0","-","9",".","\\","-","]","+","\\",".","[","A",
            "-","Z","a","-","z","]","{","2",",","}">>,
      negatives |->
          << [value |-> <<"n","o","t","-","a","n","-","e","m","a","i","l">>,
              description |-> "Plain text without @ symbol"],
             [value |-> <<"u","s","e","r","@">>,
              description |-> "Missing domain after @ symbol"] >>],
     \* Credit Card Number
     [slug |-> <<"g","l","o","b","a","l","-","c","r","e","d","i","t","-","c","a","r","d",
          "-","n","u","m","b","e","r">>,
      confidence |-> "high",
      categories |-> <<"financial">>,
      jurisdictions |-> <<"global">>,
      regulations |-> <<"pci-dss">>,
      contextKeywords |->
          << <<"c","r","e","d","i","t"," ","c","a","r","d">>,
             <<"c","a","r","d"," ","n","u","m","b","e","r">>,
             <<"C","C">>,
             <<"C","V","V">>,
             <<"e","x","p","i","r","y">>,
             <<"c","a","r","d","h","o","l","d","e","r">> >>,
      patternTemplate |->
          <<"\\","b","(","?",":","4","[","0","-","9","]","{","1","2","}","(","?",":","[",
            "0","-","9","]","{","3","}",")","?","|","5","[","1","-","5","]","[","0","-","9",
            "]","{","1","4","}","|","3","[","4","7","]","[","0","-","9","]","{","1","3","}",
            "|","3","(","?",":","0","[","0","-","5","]","|","[","6","8","]","[","0","-","9",
            "]",")","[","0","-","9","]","{","1","1","}","|","6","(","?",":","0","1","1","|",
            "5","[","0","-","9","]","{","2","}",")","[","0","-","9","]","{","1","2","}","|",
            "(","?",":","2","1","3","1","|","1","8","0","0","|","3","5","\\","d","{","3",
            "}",")","\\","d","{","1","1","}",")","\\","b">>,
      negatives |->
          << [value |-> <<"1","2","3","4","5","6","7","8","9","0","1","2","3","4","5","6">>,
              description |-> "16-digit number with no valid card network prefix"],
             [value |-> <<"0","0","0","0","0","0","0","0","0","0","0","0","0","0","0","0">>,
              description |-> "All-zeros string does not match any card prefix"] >>],
     \* IBAN
     [slug |-> <<"g","l","o","b","a","l","-","i","b","a","n">>,
      confidence |-> "high",
      categories |-> <<"financial">>,
      jurisdictions |-> <<"global">>,
      regulations |-> <<"psd2", "gdpr">>,
      contextKeywords |->
          << <<"I","B","A","N">>,
             <<"b","a","n","k"," ","a","c","c","o","u","n","t">>,
             <<"a","c","c","o","u","n","t"," ","n","u","m","b","e","r">>,
             <<"b","a","n","k"," ","t","r","a","n","s","f","e","r">>,
             <<"w","i","r","e"," ","t","r","a","n","s","f","e","r">> >>,
      patternTemplate |->
          <<"\\","b","[","A","-","Z","]","{","2","}","\\","d","{","2","}","[","A","-","Z",
            "0","-","9","]","{","4",",","3","0","}","\\","b">>,
      negatives |->
          << [value |-> <<"A","B","1","2">>,
              description |-> "Too short to be a valid IBAN"],
             [value |-> <<"1","2","3","4","5","6","7","8","9","0">>,
              description |-> "Numeric string without country prefix"] >>],
     \* IPv4 Address
     [slug |-> <<"g","l","o","b","a","l","-","i","p","v","4","-","a","d","d","r","e","s",
          "s">>,
      confidence |-> "high",
      categories |-> <<"network">>,
      jurisdictions |-> <<"global">>,
      regulations |-> <<"general-data-protection">>,
      contextKeywords |->
          << <<"I","P">>,
             <<"a","d","d","r","e","s","s">>,
             <<"h","o","s","t">>,
             <<"s","e","r","v","e","r">>,
             <<"n","e","t","w","o","r","k">>,
             <<"s","u","b","n","e","t">> >>,
      patternTemplate |->
          <<"\\","b","(","?",":","(","?",":","2","5","[","0","-","5","]","|","2","[","0",
            "-","4","]","[","0","-","9","]","|","[","0","1","]","?","[","0","-","9","]","[",
            "0","-","9","]","?",")","\\",".",")","{","3","}","(","?",":","2","5","[","0",
            "-","5","]","|","2","[","0","-","4","]","[","0","-","9","]","|","[","0","1","]",
            "?","[","0","-","9","]","[","0","-","9","]","?",")","\\","b">>,
      negatives |->
          << [value |-> <<"9","9","9",".","9","9","9",".","9","9","9",".","9","9","9">>,
              description |-> "Octets exceed the valid 0-255 range"],
             [value |-> <<"1",".","2",".","3">>,
              description |-> "Only three octets, not a valid IPv4 address"] >>],
     \* IPv6 Address
     [slug |-> <<"g","l","o","b","a","l","-","i","p","v","6","-","a","d","d","r","e","s",
          "s">>,
      confidence |-> "high",
      categories |-> <<"network">>,
      jurisdictions |-> <<"global">>,
      regulations |-> <<"general-data-protection">>,
      contextKeywords |->
          << <<"I","P","v","6">>,
             <<"a","d","d","r","e","s","s">>,
             <<"h","o","s","t">>,
             <<"n","e","t","w","o","r","k">> >>,
      patternTemplate |->
          <<"\\","b","(","?",":","[","0","-","9","a","-","f","A","-","F","]","{","1",",",
            "4","}",":",")","{","7","}","[","0","-","9","a","-","f","A","-","F","]","{","1",
            ",","4","}","\\","b">>,
      negatives |->
          << [value |-> <<"1","2","3","4",":","5","6","7","8">>,
              description |-> "Too few groups for a valid IPv6 address"],
             [value |-> <<"z","z","z","z",":","z","z","z","z",":","z","z","z","z",":","z",
                      "z","z","z",":","z","z","z","z",":","z","z","z","z",":","z","z","z",
                      "z",":","z","z","z","z">>,
              description |-> "Non-hex characters"] >>],
     \* MAC Address
     [slug |-> <<"g","l","o","b","a","l","-","m","a","c","-","a","d","d","r","e","s","s">>,
      confidence |-> "high",
      categories |-> <<"device-id", "network">>,
      jurisdictions |-> <<"global">>,
      regulations |-> <<"general-data-protection">>,
      contextKeywords |->
          << <<"M","A","C">>,
             <<"m","a","c"," ","a","d","d","r","e","s","s">>,
             <<"h","a","r","d","w","a","r","e"," ","a","d","d","r","e","s","s">>,
             <<"p","h","y","s","i","c","a","l"," ","a","d","d","r","e","s","s">>,
             <<"d","e","v","i","c","e">> >>,
      patternTemplate |->
          <<"\\","b","(","?",":","[","0","-","9","A","-","F","a","-","f","]","{","2","}",
            "[",":","\\","-","]",")","{","5","}","[","0","-","9","A","-","F","a","-","f",
            "]","{","2","}","\\","b">>,
      negatives |->
          << [value |-> <<"G","G",":","H","H",":","I","I",":","J","J",":","K","K",":","L",
                      "L">>,
              description |-> "Non-hex characters in MAC address format"],
             [value |-> <<"0","0",":","1","1",":","2","2",":","3","3",":","4","4">>,
              description |-> "Only 5 groups instead of 6"] >>],
     \* UUID
     [slug |-> <<"g","l","o","b","a","l","-","u","u","i","d">>,
      confidence |-> "high",
      categories |-> <<"device-id">>,
      jurisdictions |-> <<"global">>,
      regulations |-> <<"general-data-protection">>,
      contextKeywords |->
          << <<"U","U","I","D">>,
             <<"G","U","I","D">>,
             <<"i","d","e","n","t","i","f","i","e","r">>,
             <<"I","D">>,
             <<"u","n","i","q","u","e">> >>,
      patternTemplate |->
          <<"\\","b","[","0","-","9","a","-","f","A","-","F","]","{","8","}","-","[","0",
            "-","9","a","-","f","A","-","F","]","{","4","}","-","[","0","-","9","a","-","f",
            "A","-","F","]","{","4","}","-","[","0","-","9","a","-","f","A","-","F","]","{",
            "4","}","-","[","0","-","9","a","-","f","A","-","F","]","{","1","2","}","\\",
            "b">>,
      negatives |->
          << [value |-> <<"1","2","3","4","5","6","7","8","-","1","2","3","4","-","1","2",
                      "3","4","-","1","2","3","4">>,
              description |-> "Missing the last group"],
             [value |-> <<"n","o","t","-","a","-","u","u","i","d","-","a","t","-","a","l",
                      "l","-","n","o","p","e">>,
              description |-> "Text that superficially resembles UUID format"] >>],
     \* JSON Web Token
     [slug |-> <<"g","l","o","b","a","l","-","j","w","t">>,
      confidence |-> "high",
      categories |-> <<"credentials", "security">>,
      jurisdictions |-> <<"global">>,
      regulations |-> <<"general-data-protection">>,
      contextKeywords |->
          << <<"J","W","T">>,
             <<"t","o","k","e","n">>,
             <<"b","e","a","r","e","r">>,
             <<"a","u","t","h","o","r","i","z","a","t","i","o","n">>,
             <<"a","u","t","h">> >>,
      patternTemplate |->
          <<"\\","b","e","y","J","[","A","-","Z","a","-","z","0","-","9","_","\\","-","]",
            "{","1","0",",","}","\\",".","[","A","-","Z","a","-","z","0","-","9","_","\\",
            "-","]","{","1","0",",","}","\\",".","[","A","-","Z","a","-","z","0","-","9",
            "_","\\","-","]","{","1","0",",","}","\\","b">>,
      negatives |->
          << [value |-> <<"e","y","J","n","o","t",".","v","a","l","i","d">>,
              description |-> "Too few segments for a JWT"],
             [value |-> <<"n","o","t","a","J","W","T",".","a","t",".","a","l","l">>,
              description |-> "Does not start with eyJ prefix"] >>],
     \* AWS Access Key
     [slug |-> <<"g","l","o","b","a","l","-","a","w","s","-","a","c","c","e","s","s","-",
          "k","e","y">>,
      confidence |-> "high",
      categories |-> <<"credentials", "security">>,
      jurisdictions |-> <<"global">>,
      regulations |-> <<"general-data-protection">>,
      contextKeywords |->
          << <<"A","W","S">>,
             <<"a","c","c","e","s","s"," ","k","e","y">>,
             <<"s","e","c","r","e","t"," ","k","e","y">>,
             <<"a","p","i"," ","k","e","y">>,
             <<"c","r","e","d","e","n","t","i","a","l","s">> >>,
      patternTemplate |->
          <<"\\","b","(","A","3","T","[","A","-","Z","0","-","9","]","|","A","K","I","A",
            "|","A","G","P","A","|","A","I","D","A","|","A","R","O","A","|","A","I","P","A",
            "|","A","N","P","A","|","A","N","V","A","|","A","S","I","A",")","[","A","-","Z",
            "0","-","9","]","{","1","6","}","\\","b">>,
      negatives |->
          << [value |-> <<"I","N","V","A","L","I","D","_","D","A","T","A","_","1","2","3">>,
              description |-> "Random string that does not match the expected format"],
             [value |-> <<"A","B","C","D","I","O","S","F","O","D","N","N","7","E","X","A",
                      "M","P","L","E">>,
              description |-> "Invalid prefix not matching any AWS key type"] >>],
     \* US Social Security Number
     [slug |-> <<"u","s","-","s","o","c","i","a","l","-","s","e","c","u","r","i","t","y",
          "-","n","u","m","b","e","r">>,
      confidence |-> "medium",
      categories |-> <<"pii", "government-id">>,
      jurisdictions |-> <<"us">>,
      regulations |-> <<"ccpa">>,
      contextKeywords |->
          << <<"S","S","N">>,
             <<"s","o","c","i","a","l"," ","s","e","c","u","r","i","t","y">>,
             <<"s","o","c","i","a","l"," ","s","e","c","u","r","i","t","y"," ","n","u","m",
                "b","e","r">>,
             <<"S","S","#">> >>,
      patternTemplate |->
          <<"\\","b","\\","d","{","3","}","-","\\","d","{","2","}","-","\\","d","{","4","}",
            "\\","b">>,
      negatives |->
          << [value |-> <<"0","0","0","-","0","0","-","0","0","0","0">>,
              description |-> "All-zeros SSN is invalid"],
             [value |-> <<"1","2","3","-","4","5","-","6","7","8","9","-","0">>,
              description |-> "Extra digit group after valid SSN format"] >>],
     \* Phone Number (International)
     [slug |-> <<"g","l","o","b","a","l","-","p","h","o","n","e","-","n","u","m","b","e",
          "r">>,
      confidence |-> "medium",
      categories |-> <<"pii">>,
      jurisdictions |-> <<"global">>,
      regulations |-> <<"general-data-protection">>,
      contextKeywords |->
          << <<"p","h","o","n","e">>,
             <<"t","e","l","e","p","h","o","n","e">>,
             <<"m","o","b","i","l","e">>,
             <<"c","e","l","l">>,
             <<"c","o","n","t","a","c","t">>,
             <<"f","a","x">> >>,
      patternTemplate |->
          <<"\\","+","\\","d","{","1",",","3","}","[","\\","s","-","]","?","\\","(","?",
            "\\","d","{","1",",","4","}","\\",")","?","[","\\","s","-","]","?","\\","d","{",
            "3",",","5","}","[","\\","s","-","]","?","\\","d","{","3",",","5","}">>,
      negatives |->
          << [value |-> <<"1","2","3","4","5">>,
              description |-> "Short number without international prefix"],
             [value |-> <<"+","1">>,
              description |-> "Country code only, no subscriber number"] >>],
     \* ISO Date
     [slug |-> <<"g","l","o","b","a","l","-","i","s","o","-","d","a","t","e">>,
      confidence |-> "medium",
      categories |-> <<"pii">>,
      jurisdictions |-> <<"global">>,
      regulations |-> <<"general-data-protection">>,
      contextKeywords |->
          << <<"d","a","t","e">>,
             <<"b","o","r","n">>,
             <<"b","i","r","t","h","d","a","y">>,
             <<"D","O","B">>,
             <<"d","a","t","e"," ","o","f"," ","b","i","r","t","h">>,
             <<"c","r","e","a","t","e","d">>,
             <<"u","p","d","a","t","e","d">> >>,
      patternTemplate |->
          <<"\\","b","\\","d","{","4","}","-","\\","d","{","2","}","-","\\","d","{","2","}",
            "\\","b">>,
      negatives |->
          << [value |-> <<"2","0","2","4","-","1","3","-","0","1">>,
              description |-> "Invalid month (13)"],
             [value |-> <<"2","0","2","4","-","0","0","-","1","5">>,
              description |-> "Invalid month (00)"] >>],
     \* URL
     [slug |-> <<"g","l","o","b","a","l","-","u","r","l">>,
      confidence |-> "medium",
      categories |-> <<"network">>,
      jurisdictions |-> <<"global">>,
      regulations |-> <<"general-data-protection">>,
      contextKeywords |->
          << <<"U","R","L">>,
             <<"l","i","n","k">>,
             <<"w","e","b","s","i","t","e">>,
             <<"h","t","t","p">>,
             <<"e","n","d","p","o","i","n","t">> >>,
      patternTemplate |->
          <<"h","t","t","p","s","?",":","\\","/","\\","/","[","^","\\","s","\"","'","<",">",
            "]","+">>,
      negatives |->
          << [value |-> <<"f","t","p",":","/","/","e","x","a","m","p","l","e",".","c","o",
                      "m">>,
              description |-> "FTP protocol, not HTTP/HTTPS"],
             [value |-> <<"n","o","t"," ","a"," ","u","r","l">>,
              description |-> "Plain text without URL structure"] >>]
    >>

\* the catalogue, in its order
DETECTORS ==
    [k \in DOMAIN DetectorRules |->
        [name |-> DetectorRules[k].name,
         slug |-> DetectorData[k].slug,
         regex |-> DetectorRules[k].regex,
         validate |-> DetectorRules[k].validate,
         confidence |-> DetectorData[k].confidence,
         categories |-> DetectorData[k].categories,
         jurisdictions |-> DetectorData[k].jurisdictions,
         regulations |-> DetectorData[k].regulations,
         contextKeywords |-> DetectorData[k].contextKeywords,
         patternTemplate |-> DetectorData[k].patternTemplate,
         negatives |-> DetectorData[k].negatives]]

DetectorNamed(name) ==
    DETECTORS[CHOOSE i \in DOMAIN DETECTORS : DETECTORS[i].name = name]

\* detector.validate && !detector.validate(val)
Rejects(detector, val) ==
    CASE detector.validate = "luhn" -> ~ValidateCreditCard(val)
      [] detector.validate = "ipv4" -> ~ValidateIPv4(val)
      [] detector.validate = "date" -> ~ValidateISODate(val)
      [] OTHER -> FALSE

\* The match loop of runDetectors on one token: lastIndex = 0, then exec
\* until null.  raw are all regex matches in order, accepted those the
\* validator did not reject.  A match advances lastIndex to its end; exec
\* returning null sets it to 0.
RECURSIVE ScanFrom(_, _, _, _)
\* const val = m[0]; if (detector.validate && !detector.validate(val)) continue
Accept(detector, acc, val) ==
    [raw |-> Append(acc.raw, val),
     accepted |-> IF Rejects(detector, val) THEN acc.accepted
                  ELSE Append(acc.accepted, val)]

\* the body of the while loop, m the result of exec
ScanMatch(detector, value, acc, m) ==
    IF m = NoMatch
    THEN [raw |-> acc.raw, accepted |-> acc.accepted, lastIndex |-> 0]
    ELSE ScanFrom(detector, value, m.end,
                  Accept(detector, acc, Slice(value, m.index, m.end)))

ScanFrom(detector, value, from, acc) ==
    ScanMatch(detector, value, acc, Exec(detector.regex, value, from))

\* mutation of ScanToken: one exec from the position the regex object was
\* left at, no reset and no loop
ScanOnce(detector, value, m) ==
    IF m = NoMatch THEN [raw |-> <<>>, accepted |-> <<>>, lastIndex |-> 0]
    ELSE [raw |-> <<Slice(value, m.index, m.end)>>,
          accepted |-> Accept(detector, [raw |-> <<>>, accepted |-> <<>>],
                              Slice(value, m.index, m.end)).accepted,
          lastIndex |-> m.end]

ScanTokenSticky(detector, value, before) ==
    ScanOnce(detector, value, Exec(detector.regex, value, before))

\* before: the lastIndex the regex object was left with by earlier calls;
\* detector.regex.lastIndex = 0 overwrites it
ScanToken(detector, value, before) ==
    ScanFrom(detector, value, 0, [raw |-> <<>>, accepted |-> <<>>])

----------------------------------------------------------------------------
(* Structural signatures                                                   *)

\* the inner while loops of computeSignature: the length of the run of
\* characters of class cls that starts at 0-based index i
RECURSIVE CountRun(_, _, _)
CountRun(value, i, cls) ==
    IF i < Len(value) /\ value[i + 1] \in cls
    THEN 1 + CountRun(value, i + 1, cls)
    ELSE 0

\* the outer while loop of computeSignature, i 0-based
RECURSIVE SignatureFrom(_, _, _)
SignatureFrom(value, i, sig) ==
    IF i >= Len(value) THEN sig
    ELSE IF value[i + 1] \in Letter
    THEN LET count == CountRun(value, i, Letter)
         IN SignatureFrom(value, i + count, sig \o NumToStr(count) \o <<"A">>)
    ELSE IF value[i + 1] \in Digit
    THEN LET count == CountRun(value, i, Digit)
         IN SignatureFrom(value, i + count, sig \o NumToStr(count) \o <<"d">>)
    ELSE SignatureFrom(value, i + 1, Append(sig, value[i + 1]))

computeSignatureNoLengthLimit(value) == SignatureFrom(value, 0, <<>>)

computeSignature(value) ==
    LET sig == SignatureFrom(value, 0, <<>>)
    IN IF Len(sig) < 2 \/ Len(sig) > 40 THEN Null ELSE sig

\* /[.\-+*?^${}()|[\]\\]/
RegexMeta == {".", "-", "+", "*", "?", "^", "$", "{", "}", "(", ")", "|", "[", "]", "\\"}

LetterClassText == <<"[","A","-","Z","a","-","z","]">>

\* the while loop of signatureToRegex, i 0-based; the result is the text
\* of the regular expression
RECURSIVE RegexFrom(_, _, _)
RegexFrom(sig, i, regex) ==
    IF i >= Len(sig) THEN regex
    ELSE LET digits == CountRun(sig, i, Digit)
             count == Slice(sig, i, i + digits)
             j == i + digits
         IN IF count # <<>> /\ j < Len(sig)
            THEN LET type == sig[j + 1]
                     n == NumToStr(ParseInt(count))
                 IN RegexFrom(sig, j + 1,
                        IF type = "A"
                        THEN regex \o LetterClassText \o <<"{">> \o n \o <<"}">>
                        ELSE IF type = "d"
                        THEN regex \o <<"\\", "d", "{">> \o n \o <<"}">>
                        ELSE regex)
            ELSE IF j < Len(sig)
            THEN LET ch == sig[j + 1]
                 IN RegexFrom(sig, j + 1,
                        IF ch \in RegexMeta THEN regex \o <<"\\", ch>>
                        ELSE IF ch = " " THEN regex \o <<"\\", "s">>
                        ELSE Append(regex, ch))
            ELSE regex

signatureToRegexUnanchored(sig) == RegexFrom(sig, 0, <<>>)

signatureToRegex(sig) == RegexFrom(sig, 0, <<"\\", "b">>) \o <<"\\", "b">>

\* new RegExp(text) for the syntax signatureToRegex writes: \b \d \s, an
\* escaped character, a class of characters and ranges, {n}, a literal
CharIndex(c) ==
    CASE c \in Upper -> CHOOSE i \in 1..26 : UpperSeq[i] = c
      [] c \in Lower -> 100 + (CHOOSE i \in 1..26 : LowerSeq[i] = c)
      [] c \in Digit -> 200 + (CHOOSE i \in 1..10 : DigitSeq[i] = c)
      [] OTHER -> 0

RECURSIVE ClassSet(_, _)
ClassSet(body, i) ==
    IF i > Len(body) THEN {}
    ELSE IF i + 2 <= Len(body) /\ body[i + 1] = "-"
    THEN {c \in Alnum : CharIndex(body[i]) <= CharIndex(c)
                        /\ CharIndex(c) <= CharIndex(body[i + 2])}
             \cup ClassSet(body, i + 3)
    ELSE {body[i]} \cup ClassSet(body, i + 1)

IndexOfFrom(text, c, i) == CHOOSE k \in i..Len(text) : text[k] = c /\ \A m \in i..(k - 1) : text[m] # c

RECURSIVE CompileFrom(_, _, _)
CompileFrom(text, i, nodes) ==
    IF i > Len(text) THEN Cat(nodes)
    ELSE IF text[i] = "\\"
    THEN LET c == text[i + 1]
             node == CASE c = "b" -> WB
                       [] c = "d" -> Chr(Digit)
                       [] c = "s" -> Chr(SpaceChar)
                       [] OTHER -> Lit(c)
         IN CompileFrom(text, i + 2, Append(nodes, node))
    ELSE IF text[i] = "["
    THEN LET close == IndexOfFrom(text, "]", i)
         IN CompileFrom(text, close + 1,
                Append(nodes, Chr(ClassSet(SubSeq(text, i + 1, close - 1), 1))))
    ELSE IF text[i] = "{"
    THEN LET close == IndexOfFrom(text, "}", i)
             n == ParseInt(SubSeq(text, i + 1, close - 1))
             last == nodes[Len(nodes)]
         IN CompileFrom(text, close + 1,
                Append(Slice(nodes, 0, Len(nodes) - 1), Times(last, n)))
    ELSE CompileFrom(text, i + 1, Append(nodes, Lit(text[i])))

Compile(text) == CompileFrom(text, 1, <<>>)

\* new RegExp(text).test(value)
Matches(text, value) == Test(Compile(text), value)

----------------------------------------------------------------------------
(* Phase 1: tokenize                                                       *)

\* the least position k >= i of s (1-based) with s[k] in chars, Len(s) + 1
\* when there is none
FirstAt(s, i, chars) ==
    LET hits == {k \in i..Len(s) : s[k] \in chars}
    IN IF hits = {} THEN Len(s) + 1 ELSE CHOOSE k \in hits : \A j \in hits : k <= j

\* content.split(/\r?\n/): the lines of text from 1-based position from on
RECURSIVE SplitLinesFrom(_, _)
SplitLinesAt(text, from, n) ==
    IF n > Len(text) THEN <<SubSeq(text, from, Len(text))>>
    ELSE IF n > from /\ text[n - 1] = "\r"
    THEN <<SubSeq(text, from, n - 2)>> \o SplitLinesFrom(text, n + 1)
    ELSE <<SubSeq(text, from, n - 1)>> \o SplitLinesFrom(text, n + 1)

SplitLinesFrom(text, from) == SplitLinesAt(text, from, FirstAt(text, from, {"\n"}))
SplitLines(text) == SplitLinesFrom(text, 1)

\* line.split(/\s+/).filter(w => w.length > 0): the words of line from
\* 1-based position from on
RECURSIVE SplitWordsFrom(_, _)
SplitWordsAt(line, from, n) ==
    (IF n > from THEN <<SubSeq(line, from, n - 1)>> ELSE <<>>)
        \o (IF n > Len(line) THEN <<>> ELSE SplitWordsFrom(line, n + 1))

SplitWordsFrom(line, from) == SplitWordsAt(line, from, FirstAt(line, from, SpaceChar))
\* mutation of SplitWords: line.split(' ').filter(w => w.length > 0)
SplitWordsOnBlanks(line) == SelectSeq(Split(line, " "), LAMBDA w : w # <<>>)

SplitWords(line) == SplitWordsFrom(line, 1)

\* the for loop of parseCSVRow, i 0-based.  The iterations over a run of
\* characters that are neither quotes nor separators (current += ch) are
\* taken in one step.
RECURSIVE ParseCSVFrom(_, _, _, _, _)
ParseCSVRun(line, i, fields, current, inQuotes, n) ==
    ParseCSVFrom(line, n, fields, current \o Slice(line, i, n), inQuotes)

ParseCSVFrom(line, i, fields, current, inQuotes) ==
    IF i >= Len(line) THEN Append(fields, current)
    ELSE IF inQuotes
    THEN IF line[i + 1] = "\"" /\ i + 1 < Len(line) /\ line[i + 2] = "\""
         THEN ParseCSVFrom(line, i + 2, fields, Append(current, "\""), TRUE)
         ELSE IF line[i + 1] = "\""
         THEN ParseCSVFrom(line, i + 1, fields, current, FALSE)
         ELSE ParseCSVRun(line, i, fields, current, TRUE,
                          FirstAt(line, i + 1, {"\""}) - 1)
    ELSE IF line[i + 1] = "\""
         THEN ParseCSVFrom(line, i + 1, fields, current, TRUE)
         ELSE IF line[i + 1] = ","
         THEN ParseCSVFrom(line, i + 1, Append(fields, current), <<>>, FALSE)
         ELSE ParseCSVRun(line, i, fields, current, FALSE,
                          FirstAt(line, i + 1, {"\"", ","}) - 1)

\* mutation of parseCSVRow: the last field is pushed only when not empty
parseCSVRowNoEmptyLast(line) ==
    LET fields == ParseCSVFrom(line, 0, <<>>, <<>>, FALSE)
    IN IF fields[Len(fields)] = <<>> THEN SubSeq(fields, 1, Len(fields) - 1) ELSE fields

parseCSVRow(line) == ParseCSVFrom(line, 0, <<>>, <<>>, FALSE)

\* mutation of LooksLikeHeader: the first character may be any word character
LooksLikeHeaderAnyStart(h) ==
    LET t == Trim(h)
    IN /\ t # <<>>
       /\ \A k \in 1..Len(t) : t[k] \in WordChar \cup SpaceChar \cup {".", "/", "-"}
       /\ Len(t) < 60

\* /^[A-Za-z_][\w\s./-]*$/.test(h.trim()) && h.trim().length < 60
LooksLikeHeader(h) ==
    LET t == Trim(h)
    IN /\ t # <<>>
       /\ t[1] \in Letter \cup {"_"}
       /\ \A k \in 2..Len(t) : t[k] \in WordChar \cup SpaceChar \cup {".", "/", "-"}
       /\ Len(t) < 60

detectCSV(lines) ==
    IF Len(lines) < 2 THEN FALSE
    ELSE IF "," \notin Range(lines[1]) THEN FALSE
    ELSE LET headerFields == parseCSVRow(lines[1])
         IN IF Len(headerFields) < 2 THEN FALSE
            ELSE \A k \in DOMAIN headerFields : LooksLikeHeader(headerFields[k])

\* a token; column = -1, header = Null, fullLine = FALSE stand for an
\* absent property
Token(value, line, column, header, fullLine) ==
    [value |-> value, line |-> line, column |-> column, header |-> header,
     fullLine |-> fullLine]

\* mutation of ColumnName: the column is counted from 1
ColumnNameFromOne(col) == <<"c","o","l","u","m","n","_">> \o NumToStr(col + 1)

ColumnName(col) == <<"c","o","l","u","m","n","_">> \o NumToStr(col)

\* the tokens of one CSV row: fields, from 0-based column col on
RECURSIVE CSVRowTokens(_, _, _, _)
CSVRowTokens(fields, col, lineNo, headers) ==
    IF col >= Len(fields) THEN <<>>
    ELSE LET val == Trim(fields[col + 1])
             header == IF col < Len(headers) /\ headers[col + 1] # <<>>
                       THEN headers[col + 1] ELSE ColumnName(col)
         IN (IF val = <<>> THEN <<>>
             ELSE <<Token(val, lineNo, col, header, FALSE)>>)
            \o CSVRowTokens(fields, col + 1, lineNo, headers)

\* the CSV loop of tokenize over lines[i..], i 0-based
RECURSIVE CSVTokens(_, _, _)
CSVTokens(lines, i, headers) ==
    IF i >= Len(lines) THEN [tokens |-> <<>>, lines |-> <<>>]
    ELSE LET rest == CSVTokens(lines, i + 1, headers)
         IN IF Trim(lines[i + 1]) = <<>> THEN rest
            ELSE [tokens |-> CSVRowTokens(parseCSVRow(lines[i + 1]), 0, i + 1, headers)
                                 \o rest.tokens,
                  lines |-> <<[number |-> i + 1, content |-> lines[i + 1]]>>
                                 \o rest.lines]

\* mutation of TextTokens: no full-line token
RECURSIVE TextTokensWordsOnly(_, _)
TextTokensWordsOnly(lines, i) ==
    IF i >= Len(lines) THEN [tokens |-> <<>>, lines |-> <<>>]
    ELSE LET rest == TextTokensWordsOnly(lines, i + 1)
             words == SplitWords(lines[i + 1])
         IN IF Trim(lines[i + 1]) = <<>> THEN rest
            ELSE [tokens |-> [k \in DOMAIN words |->
                                  Token(words[k], i + 1, -1, Null, FALSE)]
                                 \o rest.tokens,
                  lines |-> <<[number |-> i + 1, content |-> lines[i + 1]]>> \o rest.lines]

\* the free-text loop of tokenize over lines[i..], i 0-based
RECURSIVE TextTokens(_, _)
TextTokens(lines, i) ==
    IF i >= Len(lines) THEN [tokens |-> <<>>, lines |-> <<>>]
    ELSE LET rest == TextTokens(lines, i + 1)
             line == lines[i + 1]
             words == SplitWords(line)
         IN IF Trim(line) = <<>> THEN rest
            ELSE [tokens |-> [k \in DOMAIN words |->
                                  Token(words[k], i + 1, -1, Null, FALSE)]
                                 \o <<Token(Trim(line), i + 1, -1, Null, TRUE)>>
                                 \o rest.tokens,
                  lines |-> <<[number |-> i + 1, content |-> line]>> \o rest.lines]

tokenize(text) ==
    LET lines == SplitLines(text)
        isCSV == detectCSV(lines)
        headers == IF isCSV THEN parseCSVRow(lines[1]) ELSE <<>>
        body == IF isCSV THEN CSVTokens(lines, 1, headers) ELSE TextTokens(lines, 0)
    IN [isCSV |-> isCSV, headers |-> headers, tokens |-> body.tokens,
        lines |-> body.lines]

----------------------------------------------------------------------------
(* The sample files                                                        *)

\* longest sample, in words
MaxWords == 4

\* the words of a sample come from one of these families
DateWords ==
    {<<"2","0","2","4","-","0","3","-","1","5">>, <<"2","0","2","4","-","1","3","-","0","1">>,
     <<"2","0","2","4","-","0","0","-","1","5">>, <<"2","0","2","4","-","0","3","-","3","2">>}
CodeWords ==
    {<<"A","B","1","2","-","3","4","5","6">>, <<"X","Y","9","9","-","0","0","0","1">>,
     <<"C","D","3","4","-","5","6","7","8">>, <<"1","2","3","-","4","5","-","6","7","8","9">>}
Families == {DateWords, CodeWords}

\* first lines of tabular samples; Null: free text, no header line
HeaderLines ==
    {Null,
     <<"E","m","a","i","l",",","n","o","t","e","s">>,
     <<"s","s","n",",","i","d">>,
     <<"n","o","t","e","s",",","r","e","f">>}

WordsPerLine == {1, 2}

\* words laid out perLine to a line, joined by sep
RECURSIVE Layout(_, _, _)
Layout(words, perLine, sep) ==
    IF words = <<>> THEN <<>>
    ELSE <<Join(Slice(words, 0, Min(perLine, Len(words))), sep)>>
         \o Layout(Slice(words, Min(perLine, Len(words)), Len(words)), perLine, sep)

Document(header, words, perLine) ==
    IF header = Null THEN Join(Layout(words, perLine, " "), "\n")
    ELSE Join(<<header>> \o Layout(words, perLine, ","), "\n")

Documents ==
    {Document(h, w, n) : h \in HeaderLines, n \in WordsPerLine,
                         w \in UNION {SeqsOf(F, 1, MaxWords) : F \in Families}}

\* Samples that mix kinds of words: some words to start with, then up to
\* MaxExtraWords more.
MaxExtraWords == 2

Mail1 == <<"a","@","b",".","c","o">>
Mail2 == <<"c","@","d",".","i","o">>
Hello == <<"h","e","l","l","o">>
Date1 == <<"2","0","2","4","-","0","3","-","1","5">>
Date2 == <<"2","0","2","4","-","0","3","-","1","6">>
Date3 == <<"2","0","2","4","-","0","3","-","1","7">>
Date4 == <<"2","0","2","4","-","0","3","-","1","8">>
Date5 == <<"2","0","2","4","-","0","3","-","1","9">>
Date6 == <<"2","0","2","4","-","0","3","-","2","0">>
Code1 == <<"A","B","1","2","-","3","4","5","6">>
Code2 == <<"X","Y","9","9","-","0","0","0","1">>
Code3 == <<"C","D","3","4","-","5","6","7","8">>
Tagged1 == <<"x","=","2","0","2","4","-","0","3","-","1","5">>
Tagged2 == <<"x","=","2","0","2","4","-","0","3","-","1","6">>
Tagged3 == <<"x","=","2","0","2","4","-","0","3","-","1","7">>
Bad1 == <<"2","0","2","4","-","1","3","-","0","1">>
Bad2 == <<"2","0","2","4","-","0","0","-","1","5">>
Bad3 == <<"2","0","2","4","-","0","3","-","3","2">>
Hash1 == Code1 \o <<"#">>
Hash2 == Code2 \o <<"#">>
Hash3 == Code3 \o <<"#">>
\* http://a@b.co
Url1 == <<"h","t","t","p",":","/","/">> \o Mail1
\* 14 times 1-, a value whose signature is longer than 40 characters
Long1 ==
    <<"1","-","1","-","1","-","1","-","1","-","1","-","1","-",
      "1","-","1","-","1","-","1","-","1","-","1","-","1","-">>

FirstWords ==
    {<<Mail1, Hello, Mail2>>, <<Date1, Mail2, Mail1>>, <<Code1, Code2, Code3>>,
     <<Code1, Code2>>, <<Tagged1, Tagged2, Tagged3>>, <<Code1, Mail1, Code2, Code3>>,
     <<Bad1, Bad2, Bad3>>, <<Long1, Code1>>,
     <<Date1, Date2, Date1, Date3, Date4, Date5, Date6>>, <<Hash1, Hash2, Hash3, Code1, Code2, Code3>>,
     <<Url1, Date1>>}
ExtraWords ==
    {<<"a","b","c">>, <<"1","2","3","4","5">>, Date1}
\* the last one: Email, Date,ref,code,Ref,a,b,c
MixedHeaderLines ==
    {Null, <<"e","m","a","i","l",",","n","o","t","e","s">>,
     <<"E","m","a","i","l",","," ","D","a","t","e",",","r","e","f",",","c","o","d","e",",",
       "R","e","f",",","a",",","b",",","c">>}

MixedDocuments ==
    {Document(h, w \o x, n) : h \in MixedHeaderLines, n \in WordsPerLine,
                              w \in FirstWords, x \in SeqsOf(ExtraWords, 0, MaxExtraWords)}

----------------------------------------------------------------------------
(* Phase 2: runDetectors                                                   *)

\* The results of the match loop on the token values of the samples, with
\* the regex object at lastIndex 0 before, are computed once and looked up.
SampleTokenValues ==
    UNION {{t.value : t \in Range(tokenize(d).tokens)} : d \in Documents \cup MixedDocuments}

ScanTable ==
    [k \in DOMAIN DETECTORS |->
        [v \in SampleTokenValues |-> ScanToken(DETECTORS[k], v, 0)]]

ScanIn(detector, value, before) ==
    IF before = 0 /\ value \in SampleTokenValues
    THEN ScanTable[CHOOSE k \in DOMAIN DETECTORS : DETECTORS[k] = detector][value]
    ELSE ScanToken(detector, value, before)

\* the loop over tokenData.tokens[k..] for one detector: the entries pushed
\* to matches, in order, and the lastIndex the regex object is left with
RECURSIVE DetectorMatches(_, _, _, _)
\* mutation of PushEntries: matches.unshift(entry)
PushEntriesInFront(token, vals, rest) ==
    [matches |-> rest.matches
                 \o [j \in DOMAIN vals |->
                        [value |-> vals[Len(vals) + 1 - j], line |-> token.line,
                         header |-> token.header]],
     lastIndex |-> rest.lastIndex]

\* const entry = { value: val, line: token.line }; matches.push(entry)
PushEntries(token, vals, rest) ==
    [matches |-> [j \in DOMAIN vals |->
                     [value |-> vals[j], line |-> token.line, header |-> token.header]]
                 \o rest.matches,
     lastIndex |-> rest.lastIndex]

MatchesAt(detector, tokens, k, scan) ==
    PushEntries(tokens[k], scan.accepted,
                DetectorMatches(detector, tokens, k + 1, scan.lastIndex))

DetectorMatches(detector, tokens, k, before) ==
    IF k > Len(tokens) THEN [matches |-> <<>>, lastIndex |-> before]
    ELSE MatchesAt(detector, tokens, k, ScanIn(detector, tokens[k].value, before))

SensitiveHeaders ==
    {<<"e","m","a","i","l">>, <<"s","s","n">>, <<"p","h","o","n","e">>,
     <<"c","a","r","d">>, <<"c","r","e","d","i","t">>, <<"i","p">>,
     <<"a","d","d","r","e","s","s">>, <<"n","a","m","e">>, <<"d","o","b">>,
     <<"b","i","r","t","h">>, <<"a","c","c","o","u","n","t">>,
     <<"t","o","k","e","n">>, <<"k","e","y">>, <<"s","e","c","r","e","t">>,
     <<"p","a","s","s","w","o","r","d">>, <<"i","d">>}

IsSensitiveHeader(header) ==
    LET h == ToLowerCase(header)
    IN \E w \in SensitiveHeaders : Includes(h, w)

\* mutation of HeaderBonus: the loop without its break
RECURSIVE HeaderBonusPerHeader(_, _)
HeaderBonusPerHeader(headers, k) ==
    IF k > Len(headers) THEN 0
    ELSE (IF IsSensitiveHeader(headers[k]) THEN 5 ELSE 0)
         + HeaderBonusPerHeader(headers, k + 1)

\* the loop over tokenData.headers: score += 5, break
RECURSIVE HeaderBonus(_, _)
HeaderBonus(headers, k) ==
    IF k > Len(headers) THEN 0
    ELSE IF IsSensitiveHeader(headers[k]) THEN 5
    ELSE HeaderBonus(headers, k + 1)

\* mutation of Detection: no `if (matches.length === 0) continue`
DetectionOfNoMatch(detector, td, matches) ==
    LET seenValues == Distinct([k \in DOMAIN matches |-> matches[k].value])
        seenLines == {matches[k].line : k \in DOMAIN matches}
        base == Len(matches) + Cardinality(seenLines) * 2
        score == IF td.isCSV THEN base + HeaderBonus(td.headers, 1) ELSE base
    IN IF score >= 2
       THEN <<[name |-> detector.name, matches |-> matches, score |-> score,
               seenValues |-> seenValues]>>
       ELSE <<>>

\* mutation of Detection: each distinct line counts once
DetectionLinesOnce(detector, td, matches) ==
    LET seenValues == Distinct([k \in DOMAIN matches |-> matches[k].value])
        seenLines == {matches[k].line : k \in DOMAIN matches}
        base == Len(matches) + Cardinality(seenLines)
        score == IF td.isCSV THEN base + HeaderBonus(td.headers, 1) ELSE base
    IN IF matches = <<>> THEN <<>>
       ELSE IF score >= 2
       THEN <<[name |-> detector.name, matches |-> matches, score |-> score,
               seenValues |-> seenValues]>>
       ELSE <<>>

\* the scoring of one detector's matches: the entry set in the Map, or none
\* (continue when there are no matches, or score < 2)
Detection(detector, td, matches) ==
    LET seenValues == Distinct([k \in DOMAIN matches |-> matches[k].value])
        seenLines == {matches[k].line : k \in DOMAIN matches}
        base == Len(matches) + Cardinality(seenLines) * 2
        score == IF td.isCSV THEN base + HeaderBonus(td.headers, 1) ELSE base
    IN IF matches = <<>> THEN <<>>
       ELSE IF score >= 2
       THEN <<[name |-> detector.name, matches |-> matches, score |-> score,
               seenValues |-> seenValues]>>
       ELSE <<>>

\* the loop over DETECTORS from the k-th on; before[k] is the lastIndex of
\* the regex object of the k-th detector
RECURSIVE DetectFrom(_, _, _)
\* mutation of SetDetection: first match wins: a later detector keeps no
\* match in a place (line and header) where this one has a match
SetDetectionFirstWins(entry, rest) ==
    LET taken == IF entry = <<>> THEN {}
                 ELSE {<<entry[1].matches[k].line, entry[1].matches[k].header>> :
                          k \in DOMAIN entry[1].matches}
        kept == [k \in DOMAIN rest.detections |->
                    [rest.detections[k] EXCEPT
                        !.matches = SelectSeq(@, LAMBDA m : <<m.line, m.header>> \notin taken)]]
    IN [detections |-> entry \o SelectSeq(kept, LAMBDA det : det.matches # <<>>),
        lastIndex |-> rest.lastIndex]

SetDetection(entry, rest) ==
    [detections |-> entry \o rest.detections, lastIndex |-> rest.lastIndex]

\* one iteration of the loop over DETECTORS, r the result of its match loop
DetectOne(td, k, before, r) ==
    SetDetection(Detection(DETECTORS[k], td, r.matches),
                 DetectFrom(td, k + 1, [before EXCEPT ![k] = r.lastIndex]))

DetectFrom(td, k, before) ==
    IF k > Len(DETECTORS) THEN [detections |-> <<>>, lastIndex |-> before]
    ELSE DetectOne(td, k, before, DetectorMatches(DETECTORS[k], td.tokens, 1, before[k]))

\* detections: the Map returned, as the sequence of its entries in insertion
\* order; lastIndex: the positions the regex objects are left at
runDetectors(td, before) == DetectFrom(td, 1, before)

----------------------------------------------------------------------------
(* Structural pattern analyzer                                             *)

\* mutation of AlreadyMatched: the loop stops before the last detection
AlreadyMatchedButLast(builtinMatches) ==
    UNION {{builtinMatches[d].matches[k].value : k \in DOMAIN builtinMatches[d].matches}
           : d \in 1..(Len(builtinMatches) - 1)}

\* alreadyMatched: the values of all matches of all detections
AlreadyMatched(builtinMatches) ==
    UNION {{builtinMatches[d].matches[k].value : k \in DOMAIN builtinMatches[d].matches}
           : d \in DOMAIN builtinMatches}

\* mutation of IsStructured: no test of alreadyMatched
IsStructuredIgnoringMatched(token, alreadyMatched) ==
    LET val == token.value
    IN /\ ~token.fullLine
       /\ \E k \in DOMAIN val : val[k] \in Digit
       /\ Len(val) >= 4
       /\ ~((\A k \in DOMAIN val : val[k] \in Digit \cup {"."}) /\ "." \notin Range(val))
       /\ ~((\A k \in DOMAIN val : val[k] \in Digit) /\ Len(val) < 6)

\* mutation of IsStructured: the plain-number test is /^[\d.-]+$/
IsStructuredDashedNumbers(token, alreadyMatched) ==
    LET val == token.value
    IN /\ ~token.fullLine
       /\ val \notin alreadyMatched
       /\ \E k \in DOMAIN val : val[k] \in Digit
       /\ Len(val) >= 4
       /\ ~(val # <<>> /\ (\A k \in DOMAIN val : val[k] \in Digit \cup {".", "-"})
            /\ "." \notin Range(val))
       /\ ~(val # <<>> /\ (\A k \in DOMAIN val : val[k] \in Digit) /\ Len(val) < 6)

\* the filter of the first loop of analyzeStructural: the token is pushed
\* to structuredTokens
IsStructured(token, alreadyMatched) ==
    LET val == token.value
    IN /\ ~token.fullLine
       /\ val \notin alreadyMatched
       /\ \E k \in DOMAIN val : val[k] \in Digit
       /\ Len(val) >= 4
       /\ ~(val # <<>> /\ (\A k \in DOMAIN val : val[k] \in Digit \cup {"."})
            /\ "." \notin Range(val))
       /\ ~(val # <<>> /\ (\A k \in DOMAIN val : val[k] \in Digit) /\ Len(val) < 6)

\* mutation of MinUniqueValues
MinUniqueValuesTwo == 3 - 1

\* uniqueValues.size < 3: continue
MinUniqueValues == 3

StructuredPattern ==
    <<"S","t","r","u","c","t","u","r","e","d"," ","P","a","t","t","e","r","n">>
StructuredPrefix == <<"S","t","r","u","c","t","u","r","e","d"," ">>

\* mutation of GroupResult: headers.size >= 1 for headers.size === 1
GroupResultFirstHeader(sig, tokens, isCSV) ==
    LET uniqueValues == Distinct([k \in DOMAIN tokens |-> tokens[k].value])
        regex == signatureToRegex(sig)
        headers == Distinct(SelectSeq([k \in DOMAIN tokens |-> tokens[k].header],
                                      LAMBDA h : h # Null /\ h # <<>>))
        headerContext == IF isCSV /\ Len(headers) >= 1 THEN headers[1] ELSE Null
        name == IF headerContext # Null THEN StructuredPrefix \o headerContext
                ELSE StructuredPattern
        base == Len(tokens) + Cardinality({tokens[k].line : k \in DOMAIN tokens}) * 2
        score == IF headerContext # Null THEN base + 5 ELSE base
    IN IF Len(uniqueValues) < MinUniqueValues THEN <<>>
       ELSE IF regex = <<>> THEN <<>>
       ELSE IF score >= 2
       THEN <<[name |-> name, signature |-> sig, regex |-> regex, tokens |-> tokens,
               uniqueValues |-> uniqueValues, score |-> score,
               headerContext |-> headerContext]>>
       ELSE <<>>

\* one iteration of the loop over signatureGroups: the result pushed, or none
GroupResult(sig, tokens, isCSV) ==
    LET uniqueValues == Distinct([k \in DOMAIN tokens |-> tokens[k].value])
        regex == signatureToRegex(sig)
        headers == Distinct(SelectSeq([k \in DOMAIN tokens |-> tokens[k].header],
                                      LAMBDA h : h # Null /\ h # <<>>))
        headerContext == IF isCSV /\ Len(headers) = 1 THEN headers[1] ELSE Null
        name == IF headerContext # Null THEN StructuredPrefix \o headerContext
                ELSE StructuredPattern
        base == Len(tokens) + Cardinality({tokens[k].line : k \in DOMAIN tokens}) * 2
        score == IF headerContext # Null THEN base + 5 ELSE base
    IN IF Len(uniqueValues) < MinUniqueValues THEN <<>>
       ELSE IF regex = <<>> THEN <<>>
       ELSE IF score >= 2
       THEN <<[name |-> name, signature |-> sig, regex |-> regex, tokens |-> tokens,
               uniqueValues |-> uniqueValues, score |-> score,
               headerContext |-> headerContext]>>
       ELSE <<>>

\* the first loop of analyzeStructural
StructuredTokens(tokens, alreadyMatched) ==
    SelectSeq(tokens, LAMBDA t : IsStructured(t, alreadyMatched))

\* signatureGroups after the second loop, as the sequence of its entries in
\* insertion order; sigOf[k] is the signature of the k-th structured token
GroupsBySignature(structuredTokens, sigOf) ==
    LET sigs == Distinct(SelectSeq(sigOf, LAMBDA g : g # Null))
    IN [j \in DOMAIN sigs |->
           [signature |-> sigs[j],
            tokens |-> LET idx == SelectSeq([k \in DOMAIN structuredTokens |-> k],
                                            LAMBDA k : sigOf[k] = sigs[j])
                       IN [i \in DOMAIN idx |-> structuredTokens[idx[i]]]]]

SignaturesOf(structuredTokens) ==
    [k \in DOMAIN structuredTokens |-> computeSignature(structuredTokens[k].value)]

GroupStructured(structuredTokens) ==
    GroupsBySignature(structuredTokens, SignaturesOf(structuredTokens))

signatureGroups(td, builtinMatches) ==
    GroupStructured(StructuredTokens(td.tokens, AlreadyMatched(builtinMatches)))

\* the loop over signatureGroups from the k-th entry on
RECURSIVE GroupResults(_, _, _)
GroupResults(groups, k, isCSV) ==
    IF k > Len(groups) THEN <<>>
    ELSE GroupResult(groups[k].signature, groups[k].tokens, isCSV)
         \o GroupResults(groups, k + 1, isCSV)

analyzeStructural(td, builtinMatches) ==
    GroupResults(signatureGroups(td, builtinMatches), 1, td.isCSV)

----------------------------------------------------------------------------
(* Phase 3: the generated records                                          *)

\* A text assembled from fixed parts and a detector's name or confidence is
\* the sequence of its parts; the other strings are sequences of characters.

\* mutation of TakeFirst: xs.slice(0, n + 1)
TakeFirstAndOneMore(xs, n) == SubSeq(xs, 1, Min(n + 1, Len(xs)))

\* xs.slice(0, n)
TakeFirst(xs, n) == SubSeq(xs, 1, Min(n, Len(xs)))

\* sampleValues.map(v => ({ value: v, description: 'Detected in sample data' }))
ShouldMatch(sampleValues) ==
    [k \in DOMAIN sampleValues |->
        [value |-> sampleValues[k], description |-> "Detected in sample data"]]

\* mutation of PushKeyword: if (lower) keywords.push(lower)
PushKeywordAlways(keywords, lower) ==
    IF lower # <<>> THEN Append(keywords, lower) ELSE keywords

\* if (lower && !keywords.includes(lower)) keywords.push(lower)
PushKeyword(keywords, lower) ==
    IF lower # <<>> /\ lower \notin Range(keywords) THEN Append(keywords, lower)
    ELSE keywords

\* the loop over csvHeaders from the k-th header on
RECURSIVE AddHeaderKeywords(_, _, _)
AddHeaderKeywords(keywords, csvHeaders, k) ==
    IF k > Len(csvHeaders) THEN keywords
    ELSE AddHeaderKeywords(PushKeyword(keywords, Trim(ToLowerCase(csvHeaders[k]))),
                           csvHeaders, k + 1)

FalsePositives ==
    <<[description |->
           "DRAFT: Review for false positive scenarios specific to your data context.",
       mitigation |->
           "DRAFT: Add specific mitigation strategies after reviewing sample data and deployment context."]>>

\* the record of a detection whose corroborative keywords are keywords
BuiltinRecord(detector, seenValues, keywords, today) ==
    [schema |-> "testpattern/v1",
     name |-> <<"DRAFT: ", detector.name>>,
     slug |-> <<"D","R","A","F","T","-">> \o detector.slug,
     version |-> "1.0.0",
     type |-> "regex",
     engine |-> "universal",
     description |-> <<"DRAFT: Auto-detected ", detector.name,
                       " pattern from sample data. Review and refine before committing.">>,
     operation |->
         "DRAFT: Review detection approach and corroborative evidence configuration.",
     pattern |-> detector.patternTemplate,
     confidence |-> detector.confidence,
     confidence_justification |->
         <<"DRAFT: Auto-assigned ", detector.confidence,
           " confidence based on pattern structure. Review and provide specific justification.">>,
     jurisdictions |-> detector.jurisdictions,
     regulations |-> detector.regulations,
     data_categories |-> detector.categories,
     corroborative_evidence |-> [keywords |-> TakeFirst(keywords, 10), proximity |-> 300],
     test_cases |-> [should_match |-> ShouldMatch(TakeFirst(seenValues, 5)),
                     should_not_match |-> detector.negatives],
     false_positives |-> FalsePositives,
     exports |-> <<"purview_xml", "yaml", "regex_copy">>,
     scope |-> "wide",
     created |-> today,
     updated |-> today,
     author |-> "testpattern-community",
     license |-> "MIT"]

\* csvHeaders is <<>> for null and <<headers>> for an array; today is the
\* day read from the clock
generateBuiltinPattern(name, detector, matches, seenValues, csvHeaders, today) ==
    BuiltinRecord(detector, seenValues,
                  IF csvHeaders = <<>> THEN detector.contextKeywords
                  ELSE AddHeaderKeywords(detector.contextKeywords, csvHeaders[1], 1),
                  today)

\* s.replace(/[^a-z0-9]+/g, '-') from the i-th character on
RECURSIVE DashRuns(_, _)
DashRuns(s, i) ==
    IF i > Len(s) THEN <<>>
    ELSE IF s[i] \in Lower \cup Digit THEN <<s[i]>> \o DashRuns(s, i + 1)
    ELSE <<"-">> \o DashRuns(s, FirstAt(s, i, Lower \cup Digit))

\* s.replace(/^-|-$/g, '')
StripDashes(s) ==
    SubSeq(s, IF s # <<>> /\ s[1] = "-" THEN 2 ELSE 1,
              IF Len(s) > 1 /\ s[Len(s)] = "-" THEN Len(s) - 1 ELSE Len(s))

SlugName(structuralGroup) ==
    IF structuralGroup.headerContext # Null
    THEN StripDashes(DashRuns(ToLowerCase(structuralGroup.headerContext), 1))
    ELSE <<"s","t","r","u","c","t","u","r","a","l","-">>
         \o ToLowerCase(SelectSeq(structuralGroup.signature, LAMBDA c : c \in Alnum))

\* mutation of generateStructuralNegatives: Math.floor for Math.ceil
generateStructuralNegativesFloor(sampleValue, signature) ==
    IF sampleValue = Null \/ sampleValue = <<>>
    THEN <<[value |-> <<"X","X","X","X","X">>,
            description |-> "Random string not matching structural pattern"],
           [value |-> <<"1","2","3","4","5">>,
            description |-> "Plain number without expected structure"]>>
    ELSE <<[value |-> Slice(sampleValue, 0, Len(sampleValue) \div 2),
            description |-> "Truncated value - too short to match"],
           [value |-> sampleValue \o <<"9","9">>,
            description |-> "Extended value - extra characters appended"]>>

\* sampleValue is Null for undefined
generateStructuralNegatives(sampleValue, signature) ==
    IF sampleValue = Null \/ sampleValue = <<>>
    THEN <<[value |-> <<"X","X","X","X","X">>,
            description |-> "Random string not matching structural pattern"],
           [value |-> <<"1","2","3","4","5">>,
            description |-> "Plain number without expected structure"]>>
    ELSE <<[value |-> Slice(sampleValue, 0, (Len(sampleValue) + 1) \div 2),
            description |-> "Truncated value - too short to match"],
           [value |-> sampleValue \o <<"9","9">>,
            description |-> "Extended value - extra characters appended"]>>

\* the record of a group whose first 5 unique values are sampleValues
StructuralRecord(structuralGroup, sampleValues, today) ==
    [schema |-> "testpattern/v1",
     name |-> <<"D","R","A","F","T",":"," ">> \o structuralGroup.name \o <<" ","(">>
              \o structuralGroup.signature \o <<")">>,
     slug |-> <<"D","R","A","F","T","-","g","l","o","b","a","l","-">>
              \o SlugName(structuralGroup),
     version |-> "1.0.0",
     type |-> "regex",
     engine |-> "universal",
     description |-> <<"DRAFT: Auto-detected structured pattern with signature \"",
                       structuralGroup.signature,
                       "\" from sample data. Review and refine before committing.">>,
     operation |-> <<"DRAFT: Structural pattern detected from ",
                     NumToStr(Len(structuralGroup.uniqueValues)),
                     " unique values. Review the regex and adjust for edge cases.">>,
     pattern |-> structuralGroup.regex,
     confidence |-> "medium",
     confidence_justification |->
         "DRAFT: Medium confidence assigned to auto-detected structural pattern. Review the format specificity and add corroborative evidence if the structure is generic.",
     jurisdictions |-> <<"global">>,
     regulations |-> <<"general-data-protection">>,
     data_categories |-> <<"pii">>,
     corroborative_evidence |->
         [keywords |-> IF structuralGroup.headerContext # Null
                       THEN <<ToLowerCase(structuralGroup.headerContext)>>
                       ELSE << <<"i","d","e","n","t","i","f","i","e","r">>, <<"I","D">>,
                               <<"n","u","m","b","e","r">>, <<"c","o","d","e">> >>,
          proximity |-> 300],
     test_cases |->
         [should_match |-> ShouldMatch(sampleValues),
          should_not_match |->
              generateStructuralNegatives(IF sampleValues = <<>> THEN Null
                                          ELSE sampleValues[1],
                                          structuralGroup.signature)],
     false_positives |-> FalsePositives,
     exports |-> <<"purview_xml", "yaml", "regex_copy">>,
     scope |-> "wide",
     created |-> today,
     updated |-> today,
     author |-> "testpattern-community",
     license |-> "MIT"]

\* mutation of generateStructuralPattern: the record has no test_cases
generateStructuralPatternNoTestCases(structuralGroup, today) ==
    LET record == StructuralRecord(structuralGroup,
                                   TakeFirst(structuralGroup.uniqueValues, 5), today)
    IN [f \in DOMAIN record \ {"test_cases"} |-> record[f]]

generateStructuralPattern(structuralGroup, today) ==
    StructuralRecord(structuralGroup, TakeFirst(structuralGroup.uniqueValues, 5), today)

\* Phase 3 of main: the records pushed to allPatterns
GenerateAll(td, builtinDetections, structuralDetections, today) ==
    [k \in DOMAIN builtinDetections |->
        generateBuiltinPattern(builtinDetections[k].name,
                               DetectorNamed(builtinDetections[k].name),
                               builtinDetections[k].matches,
                               builtinDetections[k].seenValues,
                               IF td.isCSV THEN <<td.headers>> ELSE <<>>, today)]
    \o [k \in DOMAIN structuralDetections |->
            generateStructuralPattern(structuralDetections[k], today)]

----------------------------------------------------------------------------
(* The required fields of the aggregation                                  *)

REQUIRED_PATTERN_FIELDS ==
    <<"schema", "name", "slug", "type", "confidence", "jurisdictions", "regulations",
      "data_categories", "test_cases">>
REQUIRED_KEYWORD_FIELDS == <<"schema", "name", "slug", "type", "keywords">>

\* the fields required of a loaded pattern
ReqFields(data) ==
    IF data.type = "keyword_dictionary" \/ data.type = "keyword_list"
    THEN REQUIRED_KEYWORD_FIELDS ELSE REQUIRED_PATTERN_FIELDS

\* missing = requiredFields.filter(f => !(f in obj)); true when none is missing
validate(obj, requiredFields) ==
    SelectSeq(requiredFields, LAMBDA f : f \notin DOMAIN obj) = <<>>

----------------------------------------------------------------------------
(* The run of main on one file                                             *)

NoTokenData == [isCSV |-> FALSE, headers |-> <<>>, tokens |-> <<>>, lines |-> <<>>]

\* the regex literals are created with lastIndex 0
NoLastIndex == [k \in DOMAIN DETECTORS |-> 0]

Init ==
    /\ pc = "read"
    /\ content \in Documents
    /\ tokenData = NoTokenData
    /\ detections = <<>>
    /\ structural = <<>>
    /\ input = <<>>
    /\ output = <<>>
    /\ lastIndex = NoLastIndex
    /\ allPatterns = <<>>
    /\ previous = <<>>

\* Phase 1: const tokenData = tokenize(content)
Tokenize ==
    /\ pc = "read"
    /\ tokenData' = tokenize(content)
    /\ pc' = "tokenized"
    /\ UNCHANGED <<content, detections, structural, input, output, lastIndex,
                 allPatterns, previous>>

\* Phase 2: const builtinDetections = runDetectors(tokenData)
RunDetectors ==
    /\ pc = "tokenized"
    /\ \E r \in {runDetectors(tokenData, lastIndex)} :
           /\ detections' = r.detections
           /\ lastIndex' = r.lastIndex
    /\ pc' = "detected"
    /\ UNCHANGED <<content, tokenData, structural, input, output, allPatterns,
                 previous>>

\* const structuralDetections = analyzeStructural(tokenData, builtinDetections)
AnalyzeStructural ==
    /\ pc = "detected"
    /\ structural' = analyzeStructural(tokenData, detections)
    /\ pc' = "analyzed"
    /\ UNCHANGED <<content, tokenData, detections, input, output, lastIndex,
                 allPatterns, previous>>

\* the days the clock may show
Dates == {"2026-11-02", "2026-11-03"}

\* Phase 3: the loops that push to allPatterns.  The clock is read for each
\* record; the run is taken to complete within one day.
Generate ==
    /\ pc = "analyzed"
    /\ \E today \in Dates :
           allPatterns' = GenerateAll(tokenData, detections, structural, today)
    /\ pc' = "generated"
    /\ UNCHANGED <<content, tokenData, detections, structural, input, output,
                   lastIndex, previous>>

Next == Tokenize \/ RunDetectors \/ AnalyzeStructural \/ Generate

Spec == Init /\ [][Next]_vars

\* The run of main on a mixed sample ------------------------------------------

InitMixed ==
    /\ pc = "read"
    /\ content \in MixedDocuments
    /\ tokenData = NoTokenData
    /\ detections = <<>>
    /\ structural = <<>>
    /\ input = <<>>
    /\ output = <<>>
    /\ lastIndex = NoLastIndex
    /\ allPatterns = <<>>
    /\ previous = <<>>

SpecMixed == InitMixed /\ [][Next]_vars

\* Two runs on the same content ----------------------------------------------

\* a second run on the same content, which finds the regex objects of
\* DETECTORS as the first run left them
Rerun ==
    /\ pc = "generated"
    /\ previous = <<>>
    /\ previous' = <<allPatterns>>
    /\ pc' = "read"
    /\ tokenData' = NoTokenData
    /\ detections' = <<>>
    /\ structural' = <<>>
    /\ allPatterns' = <<>>
    /\ UNCHANGED <<content, input, output, lastIndex>>

NextRerun == Tokenize \/ RunDetectors \/ AnalyzeStructural \/ Generate \/ Rerun

SpecRerun == InitMixed /\ [][NextRerun]_vars

----------------------------------------------------------------------------
(* The helpers called on their own                                         *)

Idle ==
    /\ content = <<>>
    /\ tokenData = NoTokenData
    /\ detections = <<>>
    /\ structural = <<>>
    /\ lastIndex = NoLastIndex
    /\ allPatterns = <<>>
    /\ previous = <<>>

\* the match loop of runDetectors for the detector called name, on a token
\* whose value is input
Scan(name) ==
    /\ pc = "call"
    /\ output' = ScanToken(DetectorNamed(name), input, 0)
    /\ pc' = "scanned"
    /\ UNCHANGED <<content, tokenData, detections, structural, input, lastIndex,
                 allPatterns, previous>>

\* luhnCheck and the credit card detector ----------------------------------

\* longest tail appended to a prefix
MaxLuhnTail == 3

LuhnPrefixes ==
    {<<"4","1","1","1","1","1","1","1","1","1","1","1","1">>,
     <<"1","2","3","4","5","6","7","8","9","0","1","2","3">>,
     <<"0","0","0","0","0","0","0","0","0","0","0","0","0">>,
     <<"4","1","1","1","1","1","1","1","1","1","1","1">>,
     <<"4","1","1","1","1","1","1","1","1","1","1","1","1","1","1","1","1">>,
     <<"4","1","1","1","-","1","1","1","1","-","1","1","1","1","-">>}
LuhnTailChars == {"0", "1", "4", "5", "6"}
LuhnInputs == {p \o t : p \in LuhnPrefixes, t \in SeqsOf(LuhnTailChars, 0, MaxLuhnTail)}

InitLuhn == pc = "call" /\ input \in LuhnInputs /\ output = <<>> /\ Idle

CallLuhnCheck ==
    /\ pc = "call"
    /\ output' = luhnCheck(input)
    /\ pc' = "luhnCheck"
    /\ UNCHANGED <<content, tokenData, detections, structural, input, lastIndex,
                 allPatterns, previous>>

ScanCreditCard == Scan("Credit Card Number")

NextLuhn == CallLuhnCheck \/ ScanCreditCard

SpecLuhn == InitLuhn /\ [][NextLuhn]_vars

\* the IPv4 detector -------------------------------------------------------

\* most dot-separated groups in a value
MaxGroups == 4

OctetTexts ==
    {<<"0">>, <<"1">>, <<"1","6","8">>, <<"1","9","2">>, <<"2","5","5">>,
     <<"2","5","6">>, <<"9","9","9">>}
IPv4Inputs == {Join(g, ".") : g \in SeqsOf(OctetTexts, 3, MaxGroups)}

InitIPv4 == pc = "call" /\ input \in IPv4Inputs /\ output = <<>> /\ Idle

ScanIPv4 == Scan("IPv4 Address")

NextIPv4 == ScanIPv4

SpecIPv4 == InitIPv4 /\ [][NextIPv4]_vars

\* the ISO date detector ---------------------------------------------------

YearTexts == {<<"1","8","9","9">>, <<"1","9","0","0">>, <<"2","0","2","4">>, <<"2","1","0","0">>, <<"2","1","0","1">>}
MonthTexts == {<<"0","0">>, <<"0","1">>, <<"0","2">>, <<"0","3">>, <<"1","2">>,
               <<"1","3">>, <<"3">>}
DayTexts == {<<"0","0">>, <<"0","1">>, <<"1","5">>, <<"3","1">>, <<"3","2">>}
DateInputs == {Join(<<y, m, d>>, "-") : y \in YearTexts, m \in MonthTexts, d \in DayTexts}

InitDate == pc = "call" /\ input \in DateInputs /\ output = <<>> /\ Idle

ScanISODate == Scan("ISO Date")

NextDate == ScanISODate

SpecDate == InitDate /\ [][NextDate]_vars

\* computeSignature and signatureToRegex -----------------------------------

\* longest value spelled out over SigAlphabet
MaxValueLen == 4
\* longest value of alternating letters and digits
MaxAlternating == 21

SigAlphabet == {"A", "b", "7", "-", "#", " "}
Alternating(n) == [k \in 1..n |-> IF k % 2 = 1 THEN "A" ELSE "1"]
NamedValues ==
    {<<"A","B","1","2","-","3","4","5","6">>, <<"X","Y","9","9","-","0","0","0","1">>, <<"A","1","2","-","3","4","5","6">>, <<"A","B","1","2","3","-","4","5","6">>,
     <<"A","B","C","D","E","F","G","H","I","J","K","L","1">>, <<"a","_","1",".","5","/","x">>, <<"(","5","5","5",")","1","2","3">>}
SigInputs ==
    SeqsOf(SigAlphabet, 0, MaxValueLen) \cup NamedValues
        \cup {Alternating(n) : n \in 19..MaxAlternating}

InitSig == pc = "call" /\ input \in SigInputs /\ output = <<>> /\ Idle

CallComputeSignature ==
    /\ pc = "call"
    /\ output' = [sig |-> computeSignature(input), regex |-> <<>>]
    /\ pc' = "computeSignature"
    /\ UNCHANGED <<content, tokenData, detections, structural, input, lastIndex,
                 allPatterns, previous>>

\* const regex = signatureToRegex(sig), reached only with a signature
CallSignatureToRegex ==
    /\ pc = "computeSignature"
    /\ output.sig # Null
    /\ output' = [output EXCEPT !.regex = signatureToRegex(output.sig)]
    /\ pc' = "signatureToRegex"
    /\ UNCHANGED <<content, tokenData, detections, structural, input, lastIndex,
                 allPatterns, previous>>

NextSig == CallComputeSignature \/ CallSignatureToRegex

SpecSig == InitSig /\ [][NextSig]_vars

\* tokenize ------------------------------------------------------------------

\* longest first line spelled out over LineAlphabet
MaxFirstLineLen == 3
\* most lines after the first one
MaxRows == 2

LineAlphabet == {"a", "1", ",", "\"", " ", "_"}
Letters59 == [k \in 1..59 |-> "x"]
NamedFirstLines ==
    {<<"N","a","m","e",",","E","m","a","i","l",",","S","i","g","n","u","p"," ","D","a","t","e">>,
     <<"1","9","2",".","1","6","8",".","1",".","1"," ","f","a","i","l","e","d"," ","l","o","g","i","n">>,
     <<" ","a"," ",","," ","b"," ">>,
     Letters59 \o <<",","b">>,
     Letters59 \o <<"x",",","b">>}
FirstLines == SeqsOf(LineAlphabet, 0, MaxFirstLineLen) \cup NamedFirstLines
\* what follows the first line: nothing, a line break, a line
Continuations == {<<>>, <<"\n">>, <<"\r","\n","7",",","8">>}

HeaderTexts ==
    {<<"a",",","b">>, <<"x"," ","y">>, <<>>, <<"1",",","2">>,
     <<"N","a","m","e",",","E","m","a","i","l",",","S","i","g","n","u","p"," ","D","a","t","e">>}
RowTexts ==
    {<<>>, <<" "," ">>, <<"p",","," ","q"," ",",">>, <<"7",",",",","8",",","9">>,
     <<" ","h","e","l","l","o"," "," ","w","o","r","l","d"," ">>,
     <<"\"","a",",","b","\"",",","c">>, <<"x","\t","y">>}

TokenizeInputs ==
    {f \o c : f \in FirstLines, c \in Continuations}
        \cup {Join(<<h>> \o rows, "\n") : h \in HeaderTexts,
                                           rows \in SeqsOf(RowTexts, 0, MaxRows)}

InitTokenize == pc = "call" /\ input \in TokenizeInputs /\ output = <<>> /\ Idle

CallTokenize ==
    /\ pc = "call"
    /\ output' = tokenize(input)
    /\ pc' = "tokenize"
    /\ UNCHANGED <<content, tokenData, detections, structural, input, lastIndex,
                 allPatterns, previous>>

NextTokenize == CallTokenize

SpecTokenize == InitTokenize /\ [][NextTokenize]_vars

\* parseCSVRow on one line ----------------------------------------------------

\* longest field, most fields of an encoded row, longest line given as it is
MaxFieldLen == 1
MaxFields == 3
MaxLineLen == 4

FieldAlphabet == {"a", ",", "\""}
NamedFields ==
    {<<" ","a"," ">>, <<"s","a","y"," ","\"","h","i","\"">>, <<"x",",","y",",">>}
NamedRows ==
    {<< <<" ","a"," ">>, <<>>, <<"x",",","y",",">>, <<"s","a","y"," ","\"","h","i","\"">> >>,
     << <<>>, <<>>, <<>> >>,
     << <<"\"">>, <<"\"","\"">>, <<",">>, <<"a">> >>}
Rows == SeqsOf(SeqsOf(FieldAlphabet, 0, MaxFieldLen), 1, MaxFields) \cup NamedRows

\* the standard encoding of a field: wrapped in quotes, each inner quote
\* doubled, when it contains a comma or a quote
RECURSIVE DoubleQuotes(_)
DoubleQuotes(field) ==
    IF field = <<>> THEN <<>>
    ELSE (IF Head(field) = "\"" THEN <<"\"", "\"">> ELSE <<Head(field)>>)
         \o DoubleQuotes(Tail(field))
EncodeField(field) ==
    IF "," \in Range(field) \/ "\"" \in Range(field)
    THEN <<"\"">> \o DoubleQuotes(field) \o <<"\"">>
    ELSE field
\* the standard encoding of a row: its fields joined by commas
EncodeRow(fields) == Join([k \in DOMAIN fields |-> EncodeField(fields[k])], ",")

\* a call is made on the encoding of a row, fields = <<row>>, or on a line
\* given as it is, fields = <<>>
CSVInputs ==
    {[line |-> EncodeRow(row), fields |-> <<row>>] : row \in Rows}
        \cup {[line |-> l, fields |-> <<>>] : l \in SeqsOf(LineAlphabet, 0, MaxLineLen)}

InitCSV == pc = "call" /\ input \in CSVInputs /\ output = <<>> /\ Idle

CallParseCSVRow ==
    /\ pc = "call"
    /\ output' = parseCSVRow(input.line)
    /\ pc' = "parseCSVRow"
    /\ UNCHANGED <<content, tokenData, detections, structural, input, lastIndex,
                 allPatterns, previous>>

NextCSV == CallParseCSVRow

SpecCSV == InitCSV /\ [][NextCSV]_vars

\* the while loops, one iteration a step ------------------------------------

\* longest value and longest signature spelled out over the alphabets
MaxLoopLen == 3

LoopValueAlphabet == {"A", "7", "-"}
LoopSigAlphabet == {"A", "d", "2", "x", "-"}
LoopValues ==
    SeqsOf(LoopValueAlphabet, 0, MaxLoopLen)
        \cup {Mail1, Url1, Bad1, Code1}
\* texts handed to signatureToRegex directly, among them texts that
\* computeSignature never writes
LoopSignatures == SeqsOf(LoopSigAlphabet, 0, MaxLoopLen)

\* detector.regex.exec(value) for each detector, value and lastIndex
LoopExec ==
    UNION {UNION {{[detector |-> d, value |-> value, lastIndex |-> from,
                    m |-> Exec(DETECTORS[d].regex, value, from)] :
                      from \in 0..Len(value)} :
                  value \in LoopValues} :
           d \in DOMAIN DETECTORS}
ExecIn(d, value, from) ==
    (CHOOSE r \in LoopExec :
        r.detector = d /\ r.value = value /\ r.lastIndex = from).m

NoLoopOutput == [m |-> <<>>, i |-> 0, sig |-> <<>>, regex |-> <<>>]

\* input.detector is the index in DETECTORS of the detector whose match
\* loop runs on input.value; 0 for a text handed to signatureToRegex
InitLoops ==
    /\ \/ /\ pc = "exec"
          /\ input \in [detector : DOMAIN DETECTORS, value : LoopValues]
          /\ output = NoLoopOutput
       \/ /\ pc = "signatureToRegex"
          /\ input \in [detector : {0}, value : LoopSignatures]
          /\ output = [NoLoopOutput EXCEPT !.sig = input.value, !.regex = <<"\\", "b">>]
    /\ Idle

\* while ((m = detector.regex.exec(token.value)) !== null) { ... }: one
\* call of exec from lastIndex and the body; null leaves the loop
ExecIteration(d, m) ==
    IF m = NoMatch
    THEN /\ lastIndex' = [lastIndex EXCEPT ![d] = 0]
         /\ output' = output
         /\ pc' = "computeSignature"
    ELSE /\ lastIndex' = [lastIndex EXCEPT ![d] = m.end]
         /\ output' = [output EXCEPT
                !.m = Accept(DETECTORS[d], [raw |-> <<>>, accepted |-> @],
                             Slice(input.value, m.index, m.end)).accepted]
         /\ pc' = "exec"

ExecStep ==
    /\ pc = "exec"
    /\ ExecIteration(input.detector,
                     ExecIn(input.detector, input.value, lastIndex[input.detector]))
    /\ UNCHANGED <<content, tokenData, detections, structural, input,
                 allPatterns, previous>>

\* the body of the outer while loop of computeSignature, i 0-based
SignatureIteration(value, i, sig) ==
    IF value[i + 1] \in Letter
    THEN [i |-> i + CountRun(value, i, Letter),
          sig |-> sig \o NumToStr(CountRun(value, i, Letter)) \o <<"A">>]
    ELSE IF value[i + 1] \in Digit
    THEN [i |-> i + CountRun(value, i, Digit),
          sig |-> sig \o NumToStr(CountRun(value, i, Digit)) \o <<"d">>]
    ELSE [i |-> i + 1, sig |-> Append(sig, value[i + 1])]

\* while (i < value.length) { ... }; after it the length test, and
\* signatureToRegex is called with a signature only
SignatureStep ==
    /\ pc = "computeSignature"
    /\ IF output.i < Len(input.value)
       THEN /\ \E r \in {SignatureIteration(input.value, output.i, output.sig)} :
                   output' = [output EXCEPT !.i = r.i, !.sig = r.sig]
            /\ pc' = "computeSignature"
       ELSE IF Len(output.sig) < 2 \/ Len(output.sig) > 40
       THEN /\ output' = [output EXCEPT !.sig = Null]
            /\ pc' = "done"
       ELSE /\ output' = [output EXCEPT !.i = 0, !.regex = <<"\\", "b">>]
            /\ pc' = "signatureToRegex"
    /\ UNCHANGED <<content, tokenData, detections, structural, input, lastIndex,
                 allPatterns, previous>>

\* mutation of RegexIteration: the separator branch without its i++
RegexIterationNoSeparatorStep(sig, i, regex) ==
    LET digits == CountRun(sig, i, Digit)
        j == i + digits
    IN IF digits > 0 /\ j < Len(sig)
       THEN [i |-> j + 1, regex |-> regex]
       ELSE [i |-> j, regex |-> regex]

\* the body of the while loop of signatureToRegex, i 0-based
RegexIteration(sig, i, regex) ==
    LET digits == CountRun(sig, i, Digit)
        count == Slice(sig, i, i + digits)
        j == i + digits
    IN IF count # <<>> /\ j < Len(sig)
       THEN [i |-> j + 1,
             regex |-> IF sig[j + 1] = "A"
                       THEN regex \o LetterClassText \o <<"{">>
                                \o NumToStr(ParseInt(count)) \o <<"}">>
                       ELSE IF sig[j + 1] = "d"
                       THEN regex \o <<"\\", "d", "{">>
                                \o NumToStr(ParseInt(count)) \o <<"}">>
                       ELSE regex]
       ELSE IF j < Len(sig)
       THEN [i |-> j + 1,
             regex |-> IF sig[j + 1] \in RegexMeta THEN regex \o <<"\\", sig[j + 1]>>
                       ELSE IF sig[j + 1] = " " THEN regex \o <<"\\", "s">>
                       ELSE Append(regex, sig[j + 1])]
       ELSE [i |-> j, regex |-> regex]

\* while (i < sig.length) { ... }; regex += '\\b'
RegexStep ==
    /\ pc = "signatureToRegex"
    /\ IF output.i < Len(output.sig)
       THEN /\ \E r \in {RegexIteration(output.sig, output.i, output.regex)} :
                   output' = [output EXCEPT !.i = r.i, !.regex = r.regex]
            /\ pc' = "signatureToRegex"
       ELSE /\ output' = [output EXCEPT !.regex = @ \o <<"\\", "b">>]
            /\ pc' = "done"
    /\ UNCHANGED <<content, tokenData, detections, structural, input, lastIndex,
                 allPatterns, previous>>

NextLoops == ExecStep \/ SignatureStep \/ RegexStep

\* the script is one synchronous computation: a loop that can take its
\* next iteration takes it
SpecLoops == InitLoops /\ [][NextLoops]_vars /\ WF_vars(NextLoops)

----------------------------------------------------------------------------
(* Properties                                                              *)

BuiltinValues ==
    UNION {{detections[d].matches[k].value : k \in DOMAIN detections[d].matches}
           : d \in DOMAIN detections}
StructuralValues ==
    UNION {{structural[g].tokens[k].value : k \in DOMAIN structural[g].tokens}
           : g \in DOMAIN structural}

\* C1: partition law: no string is both the value of a match of a retained
\* DetectionResult and the value of a member token of a StructuralGroup.
C1_PartitionLaw ==
    pc = "analyzed" => BuiltinValues \cap StructuralValues = {}

\* a detector claimed a value of the very shape of a structural group
C1_Witness ==
    /\ pc = "analyzed"
    /\ \E g \in DOMAIN structural : \E v \in BuiltinValues :
           computeSignature(v) = structural[g].signature

\* the distinct values of the eligible tokens whose signature is sig
C2_ValuesOf(sig) ==
    {tokenData.tokens[k].value : k \in
        {j \in DOMAIN tokenData.tokens :
            /\ IsStructured(tokenData.tokens[j], BuiltinValues)
            /\ computeSignature(tokenData.tokens[j].value) = sig}}
C2_Signatures ==
    {computeSignature(tokenData.tokens[k].value) : k \in DOMAIN tokenData.tokens} \ {Null}
C2_HasGroup(sig) == \E g \in DOMAIN structural : structural[g].signature = sig

\* C2: threshold law: a signature whose eligible tokens have exactly 2
\* distinct values yields no StructuralGroup; one with exactly 3 yields one.
C2_ThresholdLaw ==
    pc = "analyzed" =>
        \A sig \in C2_Signatures :
            /\ Cardinality(C2_ValuesOf(sig)) = 2 => ~C2_HasGroup(sig)
            /\ Cardinality(C2_ValuesOf(sig)) = 3 => C2_HasGroup(sig)

C2_Witness ==
    /\ pc = "analyzed"
    /\ \E sig \in C2_Signatures : Cardinality(C2_ValuesOf(sig)) = 3 /\ C2_HasGroup(sig)

C3_Qualifies(header) ==
    \E w \in SensitiveHeaders : Includes(ToLowerCase(header), w)
C3_Bonus ==
    IF tokenData.isCSV /\ \E k \in DOMAIN tokenData.headers : C3_Qualifies(tokenData.headers[k])
    THEN 5 ELSE 0

\* C3: the score of a retained DetectionResult is its number of accepted
\* matches plus twice its number of distinct lines, plus 5 exactly when the
\* document is tabular and some header contains a sensitive word, case
\* ignored; the 5 is added once however many headers qualify.
C3_ScoreFormula ==
    pc \in {"detected", "analyzed"} =>
        \A d \in DOMAIN detections :
            LET det == detections[d]
                lines == {det.matches[k].line : k \in DOMAIN det.matches}
            IN det.score = Len(det.matches) + 2 * Cardinality(lines) + C3_Bonus

\* a detection in a tabular document two of whose headers qualify
C3_Witness ==
    /\ pc = "detected"
    /\ detections # <<>>
    /\ tokenData.isCSV
    /\ Cardinality({k \in DOMAIN tokenData.headers : C3_Qualifies(tokenData.headers[k])}) = 2

\* C4: the regex synthesized from the signature of a value matches that
\* value and every other value of the same signature.
C4_RegexMatchesItsValues ==
    pc = "signatureToRegex" =>
        /\ Matches(output.regex, input)
        /\ \A w \in SigInputs :
               computeSignature(w) = output.sig => Matches(output.regex, w)

\* v with one more character c after index i, and v without its character i
C5_Grow(v, i, c) == SubSeq(v, 1, i) \o <<c>> \o SubSeq(v, i + 1, Len(v))
C5_Drop(v, i) == SubSeq(v, 1, i - 1) \o SubSeq(v, i + 1, Len(v))
C5_SameClass(a, b) == (a \in Letter /\ b \in Letter) \/ (a \in Digit /\ b \in Digit)
\* the values that differ from v in the length of exactly one run
C5_Variants(v) ==
    LET one == {C5_Grow(v, x[1], x[2]) : x \in
                    {x \in (DOMAIN v) \X {"Z", "q", "0", "9"} : C5_SameClass(v[x[1]], x[2])}}
        two == {C5_Grow(C5_Grow(v, x[1], x[2]), x[1], x[2]) : x \in
                    {x \in (DOMAIN v) \X {"Z", "q", "0", "9"} : C5_SameClass(v[x[1]], x[2])}}
        less == {C5_Drop(v, i) : i \in
                    {j \in DOMAIN v : j < Len(v) /\ C5_SameClass(v[j], v[j + 1])}}
    IN one \cup two \cup less

\* C5: the regex synthesized from a signature finds no match in a value
\* that differs from the shape only in the length of one letter run or one
\* digit run; the regex from 2A2d-4d finds none in A12-3456 or AB123-456.
C5_RegexRejectsOtherRunLengths ==
    pc = "signatureToRegex" =>
        /\ LET re == Compile(output.regex)
           IN \A w \in C5_Variants(input) : ~Test(re, w)
        /\ input = <<"A","B","1","2","-","3","4","5","6">> =>
               /\ output.sig = <<"2","A","2","d","-","4","d">>
               /\ ~Matches(output.regex, <<"A","1","2","-","3","4","5","6">>)
               /\ ~Matches(output.regex, <<"A","B","1","2","3","-","4","5","6">>)

C5_Witness ==
    /\ pc = "signatureToRegex"
    /\ input = <<"A","B","1","2","-","3","4","5","6">>
    /\ Matches(output.regex, input)
    /\ ~Matches(output.regex, <<"A","1","2","-","3","4","5","6">>)

Card16 == <<"4","1","1","1","1","1","1","1","1","1","1","1","1","1","1","1">>
Serial16 == <<"1","2","3","4","5","6","7","8","9","0","1","2","3","4","5","6">>
Zeros16 == <<"0","0","0","0","0","0","0","0","0","0","0","0","0","0","0","0">>

\* the Luhn sum as the claim states it: k is the distance of a digit from
\* the rightmost one; digits at odd distance are doubled, less 9 above 9
C6_Term(d, k) ==
    IF k % 2 = 1 THEN (IF 2 * d > 9 THEN 2 * d - 9 ELSE 2 * d) ELSE d
RECURSIVE C6_SumFromRight(_, _)
C6_SumFromRight(ds, k) ==
    IF k >= Len(ds) THEN 0
    ELSE C6_Term(DigitVal(ds[Len(ds) - k]), k) + C6_SumFromRight(ds, k + 1)
C6_Expected(s) ==
    LET ds == SelectSeq(s, LAMBDA c : c \in Digit)
    IN Len(ds) \in 13..19 /\ C6_SumFromRight(ds, 0) % 10 = 0

\* C6: luhnCheck(s) is true exactly when s has 13 to 19 digits (non-digits
\* stripped) and its Luhn sum (rightmost digit as is, every second digit
\* after it doubled, less 9 above 9) is divisible by 10; 4111111111111111 is
\* accepted and 1234567890123456 rejected.
C6_LuhnCheckIsLuhn ==
    pc = "luhnCheck" =>
        /\ output = C6_Expected(input)
        /\ input = Card16 => output = TRUE
        /\ input = Serial16 => output = FALSE

C6_Witness == pc = "luhnCheck" /\ input = Card16 /\ output = TRUE

\* C7, as claimed: the Luhn check rejects 0000000000000000.
C7_LuhnRejectsAllZeros ==
    (pc = "luhnCheck" /\ input = Zeros16) => output = FALSE

\* C7, amended: the credit card detector rejects 0000000000000000 because
\* its regex finds no match in it (no card prefix), so the value never
\* reaches the validator; luhnCheck itself returns true for it (sum 0).
C7_DetectorRejectsAllZeros ==
    input = Zeros16 =>
        /\ pc = "scanned" => output.raw = <<>> /\ output.accepted = <<>>
        /\ pc = "luhnCheck" => output = TRUE

C7_Witness == pc = "scanned" /\ input = Zeros16 /\ output.accepted = <<>>

\* the decimal spellings, of at most 3 digits, of the integers 0..255
C8_OctetSpellings ==
    {z \o NumToStr(n) : n \in 0..255, z \in {<<>>, <<"0">>, <<"0","0">>}}
C8_InRange(match) ==
    LET groups == Split(match, ".")
    IN Len(groups) = 4 /\ \A k \in 1..4 : groups[k] \in C8_OctetSpellings

\* C8: the IPv4 detector accepts a regex match exactly when each of its four
\* groups is an integer in 0..255, each checked independently; 192.168.1.1
\* is accepted, 999.999.999.999 is matched and rejected, and a value of three
\* groups has no regex match.
C8_IPv4AcceptsOctetsInRange ==
    pc = "scanned" =>
        /\ output.accepted = SelectSeq(output.raw, C8_InRange)
        /\ \A k \in DOMAIN output.raw : Len(Split(output.raw[k], ".")) = 4
        /\ input = <<"1","9","2",".","1","6","8",".","1",".","1">> => output.accepted = <<input>>
        /\ input = <<"9","9","9",".","9","9","9",".","9","9","9",".","9","9","9">> => output.raw = <<input>> /\ output.accepted = <<>>
        /\ Len(Split(input, ".")) = 3 => output.raw = <<>>

C8_Witness ==
    pc = "scanned" /\ input = <<"1","9","2",".","1","6","8",".","1",".","1">> /\ output.accepted = <<input>>

C9_Pad2(n) == IF n < 10 THEN <<"0">> \o NumToStr(n) ELSE NumToStr(n)
C9_Plausible(match) ==
    LET parts == Split(match, "-")
    IN /\ parts[1] \in {NumToStr(n) : n \in 1900..2100}
       /\ parts[2] \in {C9_Pad2(n) : n \in 1..12}
       /\ parts[3] \in {C9_Pad2(n) : n \in 1..31}

\* C9: the ISO date detector accepts a dddd-dd-dd match exactly when the
\* year is in 1900..2100, the month in 1..12 and the day in 1..31, whatever
\* the month: 2024-03-15 and 2024-02-31 are accepted, 2024-13-01 and
\* 2024-00-15 are rejected.
C9_ISODateAcceptsPlausible ==
    pc = "scanned" =>
        /\ output.accepted = SelectSeq(output.raw, C9_Plausible)
        /\ input \in {<<"2","0","2","4","-","0","3","-","1","5">>, <<"2","0","2","4","-","0","2","-","3","1">>} => output.accepted = <<input>>
        /\ input \in {<<"2","0","2","4","-","1","3","-","0","1">>, <<"2","0","2","4","-","0","0","-","1","5">>}
               => output.raw = <<input>> /\ output.accepted = <<>>

C9_Witness ==
    pc = "scanned" /\ input = <<"2","0","2","4","-","0","2","-","3","1">> /\ output.accepted = <<input>>

\* the signature as the claim states it: every character that starts a
\* maximal run of letters or of digits contributes the run's length and A
\* or d, every other character contributes itself
C10_Class(c) == IF c \in Letter THEN "A" ELSE IF c \in Digit THEN "d" ELSE "other"
C10_StartsRun(v, i) ==
    C10_Class(v[i]) # "other" /\ (i = 1 \/ C10_Class(v[i - 1]) # C10_Class(v[i]))
C10_RunLength(v, i) ==
    CHOOSE n \in 1..Len(v) :
        /\ i + n - 1 <= Len(v)
        /\ \A m \in i..(i + n - 1) : C10_Class(v[m]) = C10_Class(v[i])
        /\ (i + n <= Len(v) => C10_Class(v[i + n]) # C10_Class(v[i]))
RECURSIVE C10_Encode(_, _)
C10_Encode(v, i) ==
    IF i > Len(v) THEN <<>>
    ELSE (IF C10_Class(v[i]) = "other" THEN <<v[i]>>
          ELSE IF C10_StartsRun(v, i)
          THEN NumToStr(C10_RunLength(v, i)) \o <<C10_Class(v[i])>>
          ELSE <<>>)
         \o C10_Encode(v, i + 1)
C10_Expected(v) ==
    LET e == C10_Encode(v, 1)
    IN IF Len(e) < 2 \/ Len(e) > 40 THEN Null ELSE e

\* C10: computeSignature(v) replaces each maximal run of letters by
\* <length>A and each maximal run of digits by <length>d, copies every other
\* character, and returns no signature when the encoding is shorter than 2
\* or longer than 40 characters; AB12-3456 gives 2A2d-4d.
C10_SignatureIsRunLengthShape ==
    pc \in {"computeSignature", "signatureToRegex"} =>
        /\ output.sig = C10_Expected(input)
        /\ input = <<"A","B","1","2","-","3","4","5","6">> => output.sig = <<"2","A","2","d","-","4","d">>

C10_Witness ==
    pc = "computeSignature" /\ input = <<"A","B","1","2","-","3","4","5","6">> /\ output.sig = <<"2","A","2","d","-","4","d">>

\* the first line of input: up to the first line break
C11_FirstLine ==
    LET breaks == {k \in DOMAIN input : input[k] = "\n"}
        n == IF breaks = {} THEN Len(input) + 1
             ELSE CHOOSE k \in breaks : \A j \in breaks : k <= j
        raw == SubSeq(input, 1, n - 1)
    IN IF breaks # {} /\ raw # <<>> /\ raw[Len(raw)] = "\r"
       THEN SubSeq(raw, 1, Len(raw) - 1) ELSE raw

\* the field is a label: starts with a letter or underscore, holds only
\* word characters, whitespace, ".", "/", "-", and is shorter than 60
C11_IsLabel(field) ==
    LET t == Trim(field)
    IN /\ Len(t) >= 1 /\ Len(t) < 60
       /\ t[1] \in Letter \cup {"_"}
       /\ Range(t) \subseteq (WordChar \cup SpaceChar \cup {".", "/", "-"})

C11_HeaderLike ==
    LET fields == parseCSVRow(C11_FirstLine)
    IN /\ "," \in Range(C11_FirstLine)
       /\ Len(fields) >= 2
       /\ \A k \in DOMAIN fields : C11_IsLabel(fields[k])

\* C11 as stated: content is tokenized as tabular exactly when its first
\* line contains a comma, parses to at least 2 fields and every field is a
\* label.
C11_TabularIffHeaderLike ==
    pc = "tokenize" => (output.isCSV <=> C11_HeaderLike)

\* C11 amended: content is tokenized as tabular exactly when it has at least
\* two lines (a line break follows the first line) and its first line
\* contains a comma, parses to at least 2 fields and every field is a label.
C11_TabularIffTwoLinesAndHeaderLike ==
    pc = "tokenize" => (output.isCSV <=> ("\n" \in Range(input) /\ C11_HeaderLike))

C11_Witness ==
    /\ pc = "tokenize"
    /\ output.isCSV
    /\ output.headers = << <<"N","a","m","e">>, <<"E","m","a","i","l">>,
                           <<"S","i","g","n","u","p"," ","D","a","t","e">> >>

C12_DatesOf(records) == {records[k].created : k \in DOMAIN records}

\* C12: determinism: a second run on the same content with the same date
\* produces the same records in the same order as the first, and a run leaves
\* every detector's regex at position 0.
C12_RerunGivesSameRecords ==
    /\ (pc = "generated" /\ previous # <<>>
            /\ Cardinality(C12_DatesOf(allPatterns) \cup C12_DatesOf(previous[1])) <= 1)
        => allPatterns = previous[1]
    /\ pc \in {"detected", "analyzed", "generated"} => lastIndex = NoLastIndex

C12_Witness ==
    /\ pc = "generated"
    /\ previous # <<>>
    /\ allPatterns = previous[1]
    /\ Len(allPatterns) = 3
    /\ allPatterns[1].pattern = DetectorNamed("Email Address").patternTemplate
    /\ allPatterns[2].pattern = DetectorNamed("ISO Date").patternTemplate
    /\ allPatterns[3].pattern = signatureToRegex(computeSignature(Code1))

\* the position in the catalogue of the detector a built-in record is for
CatalogueIndex(record) ==
    CHOOSE d \in DOMAIN DETECTORS : record.name = <<"DRAFT: ", DETECTORS[d].name>>
\* the matches of the regex of the d-th detector in a token value of the
\* samples: raw, all of them; accepted, those its validator lets through
MatchesIn(d, value) == ScanTable[d][value]
\* the tokens of the file in whose value the email regex has a match
C13_EmailTokens ==
    {k \in DOMAIN tokenData.tokens :
        MatchesIn(CHOOSE d \in DOMAIN DETECTORS : DETECTORS[d].name = "Email Address",
                  tokenData.tokens[k].value).raw # <<>>}
\* the tokens of the file in whose value no detector regex has a match
C13_PlainTokens ==
    {k \in DOMAIN tokenData.tokens :
        \A d \in DOMAIN DETECTORS : MatchesIn(d, tokenData.tokens[k].value).raw = <<>>}
\* a CSV with header email,notes, two distinct addresses on two rows and
\* otherwise strings matching no detector, at least one
C13_TwoAddressFile ==
    /\ tokenData.isCSV
    /\ tokenData.headers = << <<"e","m","a","i","l">>, <<"n","o","t","e","s">> >>
    /\ Cardinality(C13_EmailTokens) = 2
    /\ \A j, k \in C13_EmailTokens :
           j # k => /\ tokenData.tokens[j].value # tokenData.tokens[k].value
                    /\ tokenData.tokens[j].line # tokenData.tokens[k].line
    /\ C13_PlainTokens # {}
    /\ C13_EmailTokens \cup C13_PlainTokens = DOMAIN tokenData.tokens
\* the records of built-in detections: their name is "DRAFT: " and the
\* name of a detector
C13_BuiltinRecords ==
    {k \in DOMAIN allPatterns :
        \E d \in DOMAIN DETECTORS : allPatterns[k].name = <<"DRAFT: ", DETECTORS[d].name>>}

\* C13: end to end: for a CSV with header email,notes whose rows hold two
\* distinct valid email addresses on two different rows plus strings that
\* match no detector, exactly one built-in record is emitted, for the email
\* detector, with exactly 2 should_match samples, the two addresses of the
\* file, and the score of the detection is 11.
C13_TwoAddressesGiveOneEmailRecord ==
    (pc = "generated" /\ C13_TwoAddressFile) =>
        /\ Cardinality(C13_BuiltinRecords) = 1
        /\ \A k \in C13_BuiltinRecords :
               /\ allPatterns[k].name = <<"DRAFT: ", "Email Address">>
               /\ Len(allPatterns[k].test_cases.should_match) = 2
               /\ {allPatterns[k].test_cases.should_match[j].value : j \in 1..2}
                      = {tokenData.tokens[t].value : t \in C13_EmailTokens}
        /\ Len(detections) = 1
        /\ detections[1].name = "Email Address"
        /\ detections[1].score = 11

\* the file email,notes / a@b.co,hello / c@d.io has been processed
C13_Witness ==
    /\ pc = "generated"
    /\ C13_TwoAddressFile
    /\ content = Document(<<"e","m","a","i","l",",","n","o","t","e","s">>,
                          <<Mail1, Hello, Mail2>>, 2)
    /\ Len(allPatterns) = 1

\* C14: every record emitted by generateBuiltinPattern or
\* generateStructuralPattern has all the fields the aggregation requires of
\* a regex-type record (schema, name, slug, type, confidence, jurisdictions,
\* regulations, data_categories, test_cases), so that the aggregation's
\* validation accepts it.
C14_RecordsHaveRequiredFields ==
    pc = "generated" =>
        \A k \in DOMAIN allPatterns :
            /\ allPatterns[k].type = "regex"
            /\ ReqFields(allPatterns[k]) = REQUIRED_PATTERN_FIELDS
            /\ {"schema", "name", "slug", "type", "confidence", "jurisdictions",
                "regulations", "data_categories", "test_cases"}
                   \subseteq DOMAIN allPatterns[k]
            /\ validate(allPatterns[k], ReqFields(allPatterns[k]))

\* a built-in record and a structural record have been emitted
C14_Witness ==
    /\ pc = "generated"
    /\ Len(allPatterns) = 2
    /\ allPatterns[1].name = <<"DRAFT: ", "Email Address">>
    /\ allPatterns[2].pattern = signatureToRegex(computeSignature(Code1))
    /\ validate(allPatterns[2], REQUIRED_PATTERN_FIELDS)

\* the tokens are in line order, then column order (tabular) or word order
\* with the full line last (free text; the words of the samples are
\* separated by one space)
C15_TokensInOrder ==
    LET tokens == tokenData.tokens
    IN /\ \A i, j \in DOMAIN tokens :
              i < j => /\ tokens[i].line <= tokens[j].line
                       /\ (tokens[i].line = tokens[j].line /\ tokenData.isCSV)
                              => tokens[i].column < tokens[j].column
                       /\ (tokens[i].line = tokens[j].line /\ ~tokenData.isCSV)
                              => ~tokens[i].fullLine
       /\ \A j \in DOMAIN tokens :
              tokens[j].fullLine =>
                  LET words == SelectSeq([i \in 1..(j - 1) |-> tokens[i]],
                                         LAMBDA t : t.line = tokens[j].line)
                  IN tokens[j].value
                         = Join([i \in DOMAIN words |-> words[i].value], " ")
\* the matches from the k-th on are found in this order in the tokens from
\* the t-th on: each in a token not before the token of the one before it
RECURSIVE C15_FollowTokens(_, _, _)
C15_FollowTokens(matches, k, t) ==
    IF k > Len(matches) THEN TRUE
    ELSE IF t > Len(tokenData.tokens) THEN FALSE
    ELSE IF /\ tokenData.tokens[t].line = matches[k].line
            /\ tokenData.tokens[t].header = matches[k].header
            /\ Includes(tokenData.tokens[t].value, matches[k].value)
         THEN C15_FollowTokens(matches, k + 1, t)
         ELSE C15_FollowTokens(matches, k, t + 1)
\* the index of the first match of the value
C15_FirstMatch(matches, value) ==
    CHOOSE k \in DOMAIN matches :
        matches[k].value = value /\ \A j \in 1..(k - 1) : matches[j].value # value
\* the samples are the first (up to 5) distinct values of the matches, in
\* the order of their first match
C15_SamplesFollowMatches(samples, matches) ==
    LET values == {matches[k].value : k \in DOMAIN matches}
    IN /\ Len(samples) = Min(5, Cardinality(values))
       /\ \A i \in DOMAIN samples : samples[i].value \in values
       /\ \A i, j \in DOMAIN samples :
              i < j => C15_FirstMatch(matches, samples[i].value)
                          < C15_FirstMatch(matches, samples[j].value)
       /\ \A i \in DOMAIN samples : \A v \in values :
              C15_FirstMatch(matches, v) < C15_FirstMatch(matches, samples[i].value)
                  => \E j \in 1..(i - 1) : samples[j].value = v

\* C15: ordering: the built-in records are emitted in catalogue order; the
\* matches of a detector, and hence its distinct-value samples, are in token
\* order, which is line order and then column order (tabular) or word order
\* (free text); the emitted records are in this order.
C15_OutputOrder ==
    pc = "generated" =>
        /\ C15_TokensInOrder
        /\ Len(allPatterns) = Len(detections) + Len(structural)
        /\ \A k \in DOMAIN detections :
               /\ allPatterns[k].name = <<"DRAFT: ", detections[k].name>>
               /\ C15_FollowTokens(detections[k].matches, 1, 1)
               /\ \A i, j \in DOMAIN detections[k].matches :
                      i < j => detections[k].matches[i].line <= detections[k].matches[j].line
               /\ C15_SamplesFollowMatches(allPatterns[k].test_cases.should_match,
                                           detections[k].matches)
        /\ \A i, j \in DOMAIN detections :
               i < j => CatalogueIndex(allPatterns[i]) < CatalogueIndex(allPatterns[j])

\* the date comes first in the file and the email record first in the
\* output, with the address of the earlier line as its first sample
C15_Witness ==
    /\ pc = "generated"
    /\ tokenData.tokens # <<>>
    /\ tokenData.tokens[1].value = Date1
    /\ Len(detections) = 2
    /\ allPatterns[1].name = <<"DRAFT: ", "Email Address">>
    /\ allPatterns[2].name = <<"DRAFT: ", "ISO Date">>
    /\ [k \in 1..2 |-> allPatterns[1].test_cases.should_match[k].value] = <<Mail2, Mail1>>

\* the tokens that are members of a StructuralGroup
C16_Members ==
    UNION {Range(structural[g].tokens) : g \in DOMAIN structural}
\* some detector accepted a match in the value, on the whole of it or on a
\* part
C16_HasAcceptedMatch(value) ==
    \E d \in DOMAIN DETECTORS : MatchesIn(d, value).accepted # <<>>
\* some detector accepted the whole of the value as a match
C16_AcceptedWhole(value) ==
    \E d \in DOMAIN DETECTORS : value \in Range(MatchesIn(d, value).accepted)

\* C16 as claimed: no token in which a built-in detector accepted a match,
\* be it on a proper substring of the token's value, is a member of any
\* StructuralGroup.
C16_NoMatchedTokenInGroup ==
    pc \in {"analyzed", "generated"} =>
        \A k \in DOMAIN tokenData.tokens :
            C16_HasAcceptedMatch(tokenData.tokens[k].value)
                => tokenData.tokens[k] \notin C16_Members

\* C16 as amended: no token whose whole value a built-in detector accepted
\* as a match, in that token or in another one of the file, is a member of
\* any StructuralGroup.
C16_NoClaimedValueInGroup ==
    pc \in {"analyzed", "generated"} =>
        \A k \in DOMAIN tokenData.tokens :
            (\/ C16_AcceptedWhole(tokenData.tokens[k].value)
             \/ \E j \in DOMAIN tokenData.tokens :
                    \E d \in DOMAIN DETECTORS :
                        tokenData.tokens[k].value
                            \in Range(MatchesIn(d, tokenData.tokens[j].value).accepted))
                => tokenData.tokens[k] \notin C16_Members

\* a date was accepted whole and left out of the group that the rejected
\* dates of its shape form
C16_Witness ==
    /\ pc = "analyzed"
    /\ \E k \in DOMAIN tokenData.tokens : \E g \in DOMAIN structural :
           /\ C16_AcceptedWhole(tokenData.tokens[k].value)
           /\ ~tokenData.tokens[k].fullLine
           /\ structural[g].signature = computeSignature(tokenData.tokens[k].value)
           /\ tokenData.tokens[k] \notin Range(structural[g].tokens)

\* the value has a digit, at least 4 characters, and is not digits only
C17_Shaped(value) ==
    /\ \E k \in DOMAIN value : value[k] \in Digit
    /\ Len(value) >= 4
    /\ \E k \in DOMAIN value : value[k] \notin Digit
\* the token passes the filters: not a full line, value not claimed, shaped
C17_Eligible(token) ==
    /\ ~token.fullLine
    /\ token.value \notin BuiltinValues
    /\ C17_Shaped(token.value)

C17_WitnessNoSignature ==
    /\ pc = "analyzed"
    /\ \E t \in Range(tokenData.tokens) :
           C17_Eligible(t) /\ computeSignature(t.value) = Null

\* the commas of the line before which the number of quote characters is even
C18_CommasOutsideQuotes(line) ==
    {k \in DOMAIN line :
        /\ line[k] = ","
        /\ Cardinality({j \in 1..(k - 1) : line[j] = "\""}) % 2 = 0}

\* C18: parsing the standard encoding of a row of fields (joined by commas,
\* a field with a comma or a quote wrapped in quotes with each inner quote
\* doubled) returns exactly the fields; the number of fields returned for
\* any line is one more than the number of its commas outside quotes.
C18_ParseInvertsStandardEncoding ==
    pc = "parseCSVRow" =>
        /\ input.fields # <<>> => output = input.fields[1]
        /\ Len(output) = Cardinality(C18_CommasOutsideQuotes(input.line)) + 1

\* a row with a padded field, an empty one, one with commas and one with
\* quotes has been encoded and parsed
C18_Witness ==
    /\ pc = "parseCSVRow"
    /\ input.fields # <<>>
    /\ output = << <<" ","a"," ">>, <<>>, <<"x",",","y",",">>,
                   <<"s","a","y"," ","\"","h","i","\"">> >>
    /\ Len(input.line) > Len(Join(output, ","))

\* the lines of the input and the fields of its i-th line, i from 1
C19_Lines == SplitLines(input)
C19_Fields(i) == parseCSVRow(C19_Lines[i])
\* the tokens of the output for the field at 0-based column col of line i
C19_TokensAt(i, col) ==
    {k \in DOMAIN output.tokens :
        output.tokens[k].line = i /\ output.tokens[k].column = col}
\* the digit of a column index below 10
C19_Digit(col) == <<"0","1","2","3","4","5","6","7","8","9">>[col + 1]

\* C19: in tabular mode every non-blank row after the header yields one
\* token per field that is not empty after trimming and none for an empty
\* field; the token carries the trimmed field, the 0-based column index, the
\* 1-based line number and a non-empty header: the header name at that
\* column, or column_<index> when the row has more fields than there are
\* headers.  Blank rows and the header line yield no token.
C19_TabularTokens ==
    (pc = "tokenize" /\ output.isCSV) =>
        /\ output.headers = C19_Fields(1)
        /\ \A k \in DOMAIN output.tokens :
               LET t == output.tokens[k]
               IN /\ t.line \in 2..Len(C19_Lines)
                  /\ Trim(C19_Lines[t.line]) # <<>>
                  /\ t.column \in 0..(Len(C19_Fields(t.line)) - 1)
                  /\ t.value = Trim(C19_Fields(t.line)[t.column + 1])
                  /\ t.value # <<>>
                  /\ t.header # <<>> /\ t.header # Null
                  /\ t.header = IF t.column < Len(output.headers)
                                THEN output.headers[t.column + 1]
                                ELSE <<"c","o","l","u","m","n","_", C19_Digit(t.column)>>
                  /\ ~t.fullLine
        /\ \A i \in 2..Len(C19_Lines) :
               Trim(C19_Lines[i]) # <<>> =>
                   \A col \in 0..(Len(C19_Fields(i)) - 1) :
                       Cardinality(C19_TokensAt(i, col))
                           = IF Trim(C19_Fields(i)[col + 1]) = <<>> THEN 0 ELSE 1

\* under the header a,b: a blank row, then 7,,8,9 on line 3, which yields
\* tokens for columns 0, 2 and 3, the last two under column_2 and column_3
C19_Witness ==
    /\ pc = "tokenize"
    /\ output.isCSV
    /\ input = <<"a",",","b","\n","\n","7",",",",","8",",","9">>
    /\ [k \in DOMAIN output.tokens |-> output.tokens[k].column] = <<0, 2, 3>>
    /\ output.tokens[3].header = <<"c","o","l","u","m","n","_","3">>
    /\ output.tokens[3].line = 3

\* the lines of the input
C20_Lines == SplitLines(input)
\* the 1-based positions of line at which a whitespace-delimited word starts
C20_Starts(line) ==
    SelectSeq([k \in DOMAIN line |-> k],
              LAMBDA k : line[k] \notin SpaceChar /\ (k = 1 \/ line[k - 1] \in SpaceChar))
\* the word of line that starts at position k: it runs up to the next
\* whitespace character or the end of line
C20_WordAt(line, k) ==
    LET e == CHOOSE e \in k..Len(line) :
                 /\ \A j \in k..e : line[j] \notin SpaceChar
                 /\ (e = Len(line) \/ line[e + 1] \in SpaceChar)
    IN SubSeq(line, k, e)
\* the tokens of the output that carry line number i, in their order
C20_TokensOf(i) == SelectSeq(output.tokens, LAMBDA t : t.line = i)

\* C20: in free-text mode every non-blank line yields one token per
\* whitespace-delimited word, in order, followed by exactly one full-line
\* token holding the trimmed line; a blank line yields no token; all tokens
\* of a line carry its 1-based number.
C20_FreeTextTokens ==
    (pc = "tokenize" /\ ~output.isCSV) =>
        /\ \A k \in DOMAIN output.tokens : output.tokens[k].line \in DOMAIN C20_Lines
        /\ \A j, k \in DOMAIN output.tokens :
               j < k => output.tokens[j].line <= output.tokens[k].line
        /\ \A i \in DOMAIN C20_Lines :
               LET line == C20_Lines[i]
                   starts == C20_Starts(line)
                   tokens == C20_TokensOf(i)
               IN IF \A k \in DOMAIN line : line[k] \in SpaceChar
                  THEN tokens = <<>>
                  ELSE /\ Len(tokens) = Len(starts) + 1
                       /\ \A w \in DOMAIN starts :
                              /\ tokens[w].value = C20_WordAt(line, starts[w])
                              /\ ~tokens[w].fullLine
                       /\ tokens[Len(tokens)].fullLine
                       /\ tokens[Len(tokens)].value = Trim(line)

\* a blank line, then on line 3 two words between blanks: two word tokens
\* and the trimmed line, all with line number 3
C20_Witness ==
    /\ pc = "tokenize"
    /\ ~output.isCSV
    /\ input = <<"x"," ","y","\n"," "," ","\n",
                 " ","h","e","l","l","o"," "," ","w","o","r","l","d"," ">>
    /\ Len(output.tokens) = 6
    /\ output.tokens[4] = Token(<<"h","e","l","l","o">>, 3, -1, Null, FALSE)
    /\ output.tokens[6].value = <<"h","e","l","l","o"," "," ","w","o","r","l","d">>
    /\ output.tokens[6].fullLine

\* the values of the matches that occur for the first time, in order
C21_DistinctValues(matches) ==
    LET first == SelectSeq([k \in DOMAIN matches |-> k],
                           LAMBDA k : \A j \in 1..(k - 1) :
                                          matches[j].value # matches[k].value)
    IN [i \in DOMAIN first |-> matches[first[i]].value]

\* C21: for a built-in record, should_match is the first min(5, n) of the
\* detector's n distinct accepted values in order of first occurrence, each
\* labelled "Detected in sample data"; should_not_match is the detector's
\* fixed list of negatives, whatever the sample.
C21_BuiltinTestCases ==
    pc = "generated" =>
        \A k \in DOMAIN detections :
            LET values == C21_DistinctValues(detections[k].matches)
                cases == allPatterns[k].test_cases
            IN /\ Len(cases.should_match) = Min(5, Len(values))
               /\ \A i \in DOMAIN cases.should_match :
                      /\ cases.should_match[i].value = values[i]
                      /\ cases.should_match[i].description = "Detected in sample data"
               /\ cases.should_not_match = DETECTORS[CatalogueIndex(allPatterns[k])].negatives
               /\ allPatterns[k].name = <<"DRAFT: ", "ISO Date">>
                      => [i \in 1..2 |-> cases.should_not_match[i].value]
                             = <<Bad1, Bad2>>

\* six distinct dates were accepted, the first of them twice: the record
\* holds the first five
C21_Witness ==
    /\ pc = "generated"
    /\ \E k \in DOMAIN detections :
           /\ Len(C21_DistinctValues(detections[k].matches)) = 6
           /\ detections[k].matches[3].value = Date1
           /\ [i \in 1..5 |-> allPatterns[k].test_cases.should_match[i].value]
                  = <<Date1, Date2, Date3, Date4, Date5>>

\* xs without the elements that occurred before
C22_WithoutDuplicates(xs) ==
    LET first == SelectSeq([k \in DOMAIN xs |-> k],
                           LAMBDA k : \A j \in 1..(k - 1) : xs[j] # xs[k])
    IN [i \in DOMAIN first |-> xs[first[i]]]
\* the first 10 of: the context keywords, then the given names, without
\* duplicates
C22_Expected(contextKeywords, names) ==
    LET all == C22_WithoutDuplicates(contextKeywords \o names)
    IN [i \in 1..Min(10, Len(all)) |-> all[i]]
\* the header names of a tabular file, none for free text
C22_Headers == IF tokenData.isCSV THEN tokenData.headers ELSE <<>>
C22_Keywords(k) == allPatterns[k].corroborative_evidence.keywords
C22_AtMostTenAndDistinct(keywords) ==
    /\ Len(keywords) <= 10
    /\ \A i, j \in DOMAIN keywords : i # j => keywords[i] # keywords[j]

\* C22 as claimed: for a built-in record the keyword list is the detector's
\* context keywords in order, then the tabular header names lower-cased,
\* duplicates removed, cut to 10 entries; it never has more than 10 entries
\* nor the same keyword twice.
C22_KeywordsAreLowerCasedHeaders ==
    pc = "generated" =>
        \A k \in DOMAIN detections :
            /\ C22_Keywords(k)
                   = C22_Expected(DETECTORS[CatalogueIndex(allPatterns[k])].contextKeywords,
                                  [h \in DOMAIN C22_Headers |-> ToLowerCase(C22_Headers[h])])
            /\ C22_AtMostTenAndDistinct(C22_Keywords(k))

\* C22 as amended: the header names are lower-cased and trimmed before they
\* are compared and appended.
C22_KeywordsAreTrimmedLowerCasedHeaders ==
    pc = "generated" =>
        \A k \in DOMAIN detections :
            /\ C22_Keywords(k)
                   = C22_Expected(DETECTORS[CatalogueIndex(allPatterns[k])].contextKeywords,
                                  [h \in DOMAIN C22_Headers |->
                                      Trim(ToLowerCase(C22_Headers[h]))])
            /\ C22_AtMostTenAndDistinct(C22_Keywords(k))

\* under the header Email, Date,ref,code,Ref,a,b,c the ISO Date record has
\* its 7 context keywords, then email, ref and code: date and Ref were
\* duplicates, a, b and c were cut
C22_Witness ==
    /\ pc = "generated"
    /\ tokenData.isCSV /\ Len(tokenData.headers) = 8
    /\ \E k \in DOMAIN detections :
           /\ allPatterns[k].name = <<"DRAFT: ", "ISO Date">>
           /\ Len(C22_Keywords(k)) = 10
           /\ SubSeq(C22_Keywords(k), 8, 10)
                  = << <<"e","m","a","i","l">>, <<"r","e","f">>, <<"c","o","d","e">> >>

\* half of n, rounded up
C23_HalfUp(n) == CHOOSE h \in 0..n : 2 * h >= n /\ 2 * h < n + 2
\* the record emitted for the g-th StructuralGroup
C23_RecordOf(g) == allPatterns[Len(detections) + g]

\* C23: for a structural record, should_not_match has exactly two entries
\* built from the first sample value v: the first ceil(len(v)/2) characters
\* of v, and v with 99 appended; the two generic fallback negatives are not
\* emitted when there is a sample value.
C23_StructuralNegatives ==
    pc = "generated" =>
        \A g \in DOMAIN structural :
            LET cases == C23_RecordOf(g).test_cases
                v == structural[g].tokens[1].value
            IN /\ cases.should_match # <<>>
               /\ cases.should_match[1].value = v
               /\ Len(cases.should_not_match) = 2
               /\ cases.should_not_match[1].value = SubSeq(v, 1, C23_HalfUp(Len(v)))
               /\ cases.should_not_match[2].value = v \o <<"9","9">>
               /\ cases.should_not_match[1].value # <<"X","X","X","X","X">>
               /\ cases.should_not_match[2].value # <<"1","2","3","4","5">>

\* a group whose first value has 9 characters: the negatives are its first
\* 5 characters and the value followed by 99
C23_Witness ==
    /\ pc = "generated"
    /\ \E g \in DOMAIN structural :
           /\ structural[g].tokens[1].value = Code1
           /\ [i \in 1..2 |-> C23_RecordOf(g).test_cases.should_not_match[i].value]
                  = << <<"A","B","1","2","-">>,
                       <<"A","B","1","2","-","3","4","5","6","9","9">> >>

\* the headers carried by the member tokens of the group
C24_Headers(group) == {group.tokens[k].header : k \in DOMAIN group.tokens}
\* the document is tabular and all member tokens carry one and the same header
C24_OneHeader(group) ==
    tokenData.isCSV /\ Cardinality(C24_Headers(group)) = 1 /\ Null \notin C24_Headers(group)

\* C24: for a StructuralGroup, headerContext is set, to the header, and the
\* name is "Structured <header>", exactly when the document is tabular and
\* all member tokens carry one and the same header; otherwise the name is
\* the generic one; score = member token count + 2 * number of distinct
\* member lines, plus 5 exactly when headerContext is set.
C24_StructuralNameAndScore ==
    pc \in {"analyzed", "generated"} =>
        \A g \in DOMAIN structural :
            LET group == structural[g]
                base == Len(group.tokens)
                            + 2 * Cardinality({group.tokens[k].line : k \in DOMAIN group.tokens})
            IN IF C24_OneHeader(group)
               THEN /\ group.headerContext = group.tokens[1].header
                    /\ group.name = <<"S","t","r","u","c","t","u","r","e","d"," ">>
                                        \o group.tokens[1].header
                    /\ group.score = base + 5
               ELSE /\ group.headerContext = Null
                    /\ group.name = <<"S","t","r","u","c","t","u","r","e","d"," ",
                                      "P","a","t","t","e","r","n">>
                    /\ group.score = base

\* a group of a tabular file whose members are in one column, named after
\* its header
C24_Witness ==
    /\ pc = "analyzed"
    /\ \E g \in DOMAIN structural :
           /\ C24_OneHeader(structural[g])
           /\ structural[g].name = <<"S","t","r","u","c","t","u","r","e","d"," ",
                                     "e","m","a","i","l">>
           /\ structural[g].score = Len(structural[g].tokens) * 3 + 5

\* a group of a tabular file whose members are in two columns: generic name
C24_WitnessTwoHeaders ==
    /\ pc = "analyzed"
    /\ tokenData.isCSV
    /\ \E g \in DOMAIN structural :
           Cardinality(C24_Headers(structural[g])) = 2 /\ structural[g].headerContext = Null

\* the d-th detector accepted a match in some token of the file
C25_Accepted(d) ==
    \E k \in DOMAIN tokenData.tokens :
        MatchesIn(d, tokenData.tokens[k].value).accepted # <<>>
\* the DetectionResults of the d-th detector
C25_ResultsOf(d) == {k \in DOMAIN detections : detections[k].name = DETECTORS[d].name}

\* C25: a detector has a DetectionResult exactly when it accepted at least
\* one match; every retained result has a score of at least 2; a detector
\* with no accepted match is not retained, also in a tabular document with
\* a sensitive header.
C25_RetainedIffAccepted ==
    pc \in {"detected", "analyzed", "generated"} =>
        /\ \A d \in DOMAIN DETECTORS :
               Cardinality(C25_ResultsOf(d)) = IF C25_Accepted(d) THEN 1 ELSE 0
        /\ \A k \in DOMAIN detections :
               /\ detections[k].score >= 2
               /\ detections[k].matches # <<>>
               /\ \E d \in DOMAIN DETECTORS : k \in C25_ResultsOf(d)

\* a tabular file with a sensitive header in which the email regex has
\* matches and the other detectors have none: one result only
C25_Witness ==
    /\ pc = "detected"
    /\ tokenData.isCSV
    /\ C3_Bonus = 5
    /\ Len(detections) = 1
    /\ detections[1].name = "Email Address"
    /\ \E d \in DOMAIN DETECTORS : ~C25_Accepted(d)

\* C26: for every emitted structural record, neither of its
\* should_not_match values, the truncated sample and the sample with 99
\* appended, contains a match of the record's own pattern, also when the
\* sample value begins or ends with a non-word character.
C26_NegativesDoNotMatch ==
    pc = "generated" =>
        \A g \in DOMAIN structural :
            \A i \in DOMAIN C23_RecordOf(g).test_cases.should_not_match :
                ~Matches(C23_RecordOf(g).pattern,
                         C23_RecordOf(g).test_cases.should_not_match[i].value)

\* the same for the records whose first sample value ends in a word character
C26_NegativesDoNotMatchAfterWordChar ==
    pc = "generated" =>
        \A g \in DOMAIN structural :
            LET v == structural[g].tokens[1].value
            IN v[Len(v)] \in WordChar =>
                   \A i \in DOMAIN C23_RecordOf(g).test_cases.should_not_match :
                       ~Matches(C23_RecordOf(g).pattern,
                                C23_RecordOf(g).test_cases.should_not_match[i].value)

\* C27: within one run all emitted records have pairwise distinct slugs: in
\* particular two structural groups with different signatures get
\* different slugs, whether they share one tabular header or have
\* signatures that differ only in separator characters.
C27_SlugsAreDistinct ==
    pc = "generated" =>
        \A i, j \in DOMAIN allPatterns :
            i # j => allPatterns[i].slug # allPatterns[j].slug

\* the same for the built-in records alone
C27_BuiltinSlugsAreDistinct ==
    pc = "generated" =>
        \A i, j \in DOMAIN detections :
            i # j => allPatterns[i].slug # allPatterns[j].slug

\* the entries the d-th detector records on its own in the tokens from the
\* k-th on: for each token in turn, the matches it accepts in the value
RECURSIVE C28_Alone(_, _)
C28_Alone(d, k) ==
    IF k > Len(tokenData.tokens) THEN <<>>
    ELSE LET token == tokenData.tokens[k]
             accepted == MatchesIn(d, token.value).accepted
         IN [i \in DOMAIN accepted |->
                [value |-> accepted[i], line |-> token.line, header |-> token.header]]
            \o C28_Alone(d, k + 1)
\* the matches of the DetectionResult of the d-th detector, none without one
C28_MatchesOf(d) ==
    IF C25_ResultsOf(d) = {} THEN <<>>
    ELSE detections[CHOOSE k \in C25_ResultsOf(d) : TRUE].matches

\* C28: the built-in detectors are evaluated independently of one another:
\* the matches a detector records are those it accepts in each token on
\* its own, whatever the detectors earlier in the catalogue matched; there
\* is no first-match-wins exclusion, so one token can have overlapping
\* matches in several DetectionResults.
C28_DetectorsAreIndependent ==
    pc \in {"detected", "analyzed", "generated"} =>
        \A d \in DOMAIN DETECTORS : C28_MatchesOf(d) = C28_Alone(d, 1)

\* in the token http://a@b.co the email detector recorded a@b.co and the
\* URL detector, later in the catalogue, the whole token
C28_Witness ==
    /\ pc = "detected"
    /\ \E i, j \in DOMAIN detections :
           /\ i < j
           /\ detections[i].name = "Email Address"
           /\ detections[j].name = "URL"
           /\ detections[i].matches[1] = [value |-> Mail1, line |-> 1, header |-> Null]
           /\ detections[j].matches[1] = [value |-> Url1, line |-> 1, header |-> Null]

\* an iteration that stays in its loop moves the loop's position forward
C29_Advance ==
    /\ pc = "exec" /\ pc' = "exec" =>
           lastIndex'[input.detector] > lastIndex[input.detector]
    /\ pc = "computeSignature" /\ pc' = "computeSignature" => output'.i > output.i
    /\ pc = "signatureToRegex" /\ pc' = "signatureToRegex" => output'.i > output.i

\* C29: the loops terminate on every input: each match, accepted or
\* rejected by the validator, advances the scan position of the match loop
\* of runDetectors, computeSignature and signatureToRegex advance their
\* index on every iteration, also for a signature that ends in a digit
\* count or holds an unexpected character, and every run reaches the end.
C29_LoopsTerminate == [][C29_Advance]_vars /\ <>(pc = "done")

\* the date detector is in its match loop on 2024-13-01 after the match the
\* validator rejected: the scan position is 10 and nothing is recorded
C29_Witness ==
    /\ pc = "exec"
    /\ input.value = Bad1
    /\ DETECTORS[input.detector].name = "ISO Date"
    /\ lastIndex[input.detector] = 10
    /\ output.m = <<>>

\* signatureToRegex ended on 2x2, a text with an unexpected type character
\* and a digit count at its end
C29_WitnessDigitCountAtEnd ==
    /\ pc = "done"
    /\ input = [detector |-> 0, value |-> <<"2", "x", "2">>]
    /\ output.regex = <<"\\", "b", "\\", "b">>

\* the loops taken an iteration at a time give what the functions give
C29_StepsAgreeWithFunctions ==
    pc = "done" =>
        IF input.detector = 0 THEN output.regex = signatureToRegex(input.value)
        ELSE /\ output.m = ScanToken(DETECTORS[input.detector], input.value, 0).accepted
             /\ output.sig = computeSignature(input.value)
             /\ output.sig # Null => output.regex = signatureToRegex(output.sig)

\* the document is free text with a single non-blank line of one word
C30_OneWordDocument ==
    /\ ~tokenData.isCSV
    /\ Len(tokenData.lines) = 1
    /\ Len(SplitWords(tokenData.lines[1].content)) = 1
\* the d-th detector accepts exactly one match in the word
C30_OneMatch(d) ==
    Len(MatchesIn(d, SplitWords(tokenData.lines[1].content)[1]).accepted) = 1
\* the result has two entries, equal in value and line, and the score 4
C30_CountedTwice(result) ==
    /\ Len(result.matches) = 2
    /\ result.matches[1].value = result.matches[2].value
    /\ result.matches[1].line = result.matches[2].line
    /\ Len(result.seenValues) = 1
    /\ Cardinality({result.matches[k].line : k \in DOMAIN result.matches}) = 1
    /\ result.score = 4

\* C30: in free text an occurrence found in a word token is counted again
\* in the full-line token of its line: for a document of a single non-blank
\* line of one word in which a detector accepts exactly one match, the
\* detector records 2 match entries with the same value and line, 1
\* distinct value and 1 distinct line, and its score is 4.
C30_WordCountedAgainInFullLine ==
    (pc \in {"detected", "analyzed", "generated"} /\ C30_OneWordDocument) =>
        \A d \in DOMAIN DETECTORS :
            C30_OneMatch(d) =>
                /\ Cardinality(C25_ResultsOf(d)) = 1
                /\ \A k \in C25_ResultsOf(d) : C30_CountedTwice(detections[k])

\* the document 2024-03-15: the date detector has the date twice, score 4
C30_Witness ==
    /\ pc = "detected"
    /\ content = Date1
    /\ C30_OneWordDocument
    /\ \E k \in DOMAIN detections :
           /\ detections[k].name = "ISO Date"
           /\ detections[k].matches =
                  <<[value |-> Date1, line |-> 1, header |-> Null],
                    [value |-> Date1, line |-> 1, header |-> Null]>>
           /\ detections[k].score = 4

=============================================================================
